---- MODULE Spec2Model ----
(***************************************************************************)
(* Model of the crypto price prediction backend:                           *)
(*   - the ingestion coordinator (backend/data/data_fetcher.py) with its   *)
(*     provider adapter (cryptocompare_api.py) and synthetic generator     *)
(*     (mock_data.py);                                                     *)
(*   - the windowing step of PricePredictor (prepare_sequences);           *)
(*   - the artifact files written by train and read by load_model/predict  *)
(*     (backend/models/price_predictor.py) and the API handlers of app.py  *)
(*     that reach them, and the backtest of check_accuracy.py;             *)
(*   - the pure computations of predict, the scaler, the backtest and the  *)
(*     feature table, each on bounded inputs;                              *)
(*   - the cached external series (external_fetcher.py,                    *)
(*     sentiment_fetcher.py), the feature functions as seen by their       *)
(*     caller, the groups of AdvancedFeatureEngineer and the two provider  *)
(*     adapters.                                                           *)
(* Calls are synchronous and never overlap (one handler runs to its end    *)
(* before the next starts), so each handler is one action; what a handler  *)
(* did on the way (adapter calls, sleeps, file writes) is kept in a log    *)
(* variable so that properties of a single call can be stated.             *)
(***************************************************************************)
EXTENDS Integers, Sequences, FiniteSets, TLC

VARIABLES
    api_failed,      \* DataFetcher.api_failed, one per DataFetcher instance
    use_mock_data,   \* DataFetcher.use_mock_data, one per DataFetcher instance
    fetch_log,       \* what the last coordinator call did and returned
    seq_in,          \* input of prepare_sequences: [T, L, H]
    seq_out,         \* output of prepare_sequences: "unset" or a sequence of pairs
    model_file,      \* <coin>_model.h5   : Absent or the regressor written by a run
    scaler_file,     \* <coin>_scaler.pkl : Absent or the scaler written by a run
    config_file,     \* <coin>_config.json: Absent or the config written by a run
    run_count,       \* number of training runs started so far
    predictor,       \* the PricePredictor object in hand
    pred_log,        \* what the last predictor/API operation did and returned
    forecast,        \* predict, lines 284-315: inputs and result of the forecast loop
    scaling,         \* the MinMaxScaler of prepare_sequences / predict: inputs and results
    backtest,        \* evaluate_model_accuracy: inputs and result
    features,        \* calculate_technical_indicators + dropna: inputs and result
    sentiment,       \* add_sentiment_data: inputs and result
    cache,           \* the two cache files of the external series, the clock, the last getter call
    engine,          \* a caller's table handed to a feature function, and what came back
    groups,          \* AdvancedFeatureEngineer: the table while the groups are applied
    adapter          \* the last provider adapter operation: payload and result

fetch_vars == <<api_failed, use_mock_data, fetch_log>>
seq_vars == <<seq_in, seq_out>>
art_vars == <<model_file, scaler_file, config_file, run_count, predictor, pred_log>>
calc_vars == <<forecast, scaling, backtest, features, sentiment,
               cache, engine, groups, adapter>>
vars == <<api_failed, use_mock_data, fetch_log, seq_in, seq_out,
          model_file, scaler_file, config_file, run_count, predictor, pred_log,
          forecast, scaling, backtest, features, sentiment,
          cache, engine, groups, adapter>>

(***************************************************************************)
(* Bounds of the model.                                                    *)
(***************************************************************************)
\* largest max_retries argument explored
MaxRetries == 3
\* largest feature table explored by the windowing specification
MaxRows == 9
\* largest lookback / horizon explored by the windowing specification
MaxLookback == 4
MaxHorizon == 3
\* training runs explored for one symbol
MaxRuns == 2

(***************************************************************************)
(* Python helpers.                                                         *)
(***************************************************************************)
\* len(range(lo, hi)); range(n, 0, -1) has the length of range(0, n)
RangeLen(lo, hi) == IF hi > lo THEN hi - lo ELSE 0

Min(a, b) == IF a < b THEN a ELSE b

\* floating-point values are kept as exact fractions n/d (d > 0); two
\* fractions are the same number when they cross-multiply to the same value
Rat(n, d) == [n |-> n, d |-> d]
RatEq(a, b) == a.n * b.d = b.n * a.d

(***************************************************************************)
(* Provider adapter (CryptoCompareAPI) and synthetic generator.            *)
(***************************************************************************)
\* keys of CryptoCompareAPI.coin_symbols that the model explores
CoinSymbols == {"BTC", "XRP"}

\* symbols a caller may pass: two supported ones and one unsupported
Coins == CoinSymbols \cup {"FOO"}

\* period arguments explored; "10y" is not a key of days_map
Periods == {"1d", "10y"}

\* days_map.get(period, 1825)
days_map(period) ==
    CASE period = "1d" -> 1
      [] period = "5d" -> 5
      [] period = "1mo" -> 30
      [] period = "3mo" -> 90
      [] period = "6mo" -> 180
      [] period = "1y" -> 365
      [] period = "2y" -> 730
      [] period = "5y" -> 1825
      [] period = "max" -> 3650
      [] OTHER -> 1825

\* what the provider can answer to one request for a supported symbol:
\* rows ("data"), None (bad response or transport error, caught inside the
\* adapter), or for the history an empty frame (every row filtered out)
ProviderAnswers(op) ==
    IF op = "hist" THEN {"data", "none", "empty"} ELSE {"data", "none"}

\* CryptoCompareAPI.get_historical_data / get_current_price: raises ValueError
\* for a symbol that is not in coin_symbols, else hands on the provider's answer
AdapterCall(coin, answer) ==
    IF coin \notin CoinSymbols THEN "raise" ELSE answer

\* results handed to the caller of the coordinator
FetchNone == [kind |-> "None", source |-> "", rows |-> 0, pipeline |-> ""]

RealSeries(days) ==
    [kind |-> "series", source |-> "real", rows |-> Min(days, 2000), pipeline |-> ""]

RealQuote == [kind |-> "quote", source |-> "real", rows |-> 1, pipeline |-> ""]

\* a mutant of generate_historical_data: one date too few
generate_historical_data_short(coin, days) ==
    [kind |-> "series", source |-> "synthetic", rows |-> RangeLen(1, days),
     pipeline |-> ""]

\* MockDataGenerator.generate_historical_data: one row per date of
\* range(days, 0, -1)
generate_historical_data(coin, days) ==
    [kind |-> "series", source |-> "synthetic", rows |-> RangeLen(0, days),
     pipeline |-> ""]

\* MockDataGenerator.get_current_price
mock_get_current_price(coin) ==
    [kind |-> "quote", source |-> "synthetic", rows |-> 1, pipeline |-> ""]

(***************************************************************************)
(* Ingestion coordinator (DataFetcher).                                    *)
(***************************************************************************)
\* the DataFetcher instances of a process: app.py's module-level data_fetcher
\* and the one a script or evaluate_model_accuracy constructs
Fetchers == {"app", "script"}

Event(ev, out, t) == [ev |-> ev, out |-> out, t |-> t]

\* a mutant of the guard at the top of each coordinator call: the
\* api_failed flag is not consulted
degraded_ignoring_flag(f) == use_mock_data[f]

\* the guard at the top of each coordinator call:
\* self.use_mock_data or self.api_failed
degraded(f) == use_mock_data[f] \/ api_failed[f]

\* a mutant of the retry test: the last attempt is retried too
retry_again_always(attempt, max_retries) == attempt < max_retries

\* attempt < max_retries - 1
retry_again(attempt, max_retries) == attempt < max_retries - 1

\* the sleep at the top of attempt `attempt` (> 0): 2 ** attempt for the
\* history, the constant 2 for the quote
wait_time(op, attempt) == IF op = "hist" THEN 2 ^ attempt ELSE 2

\* the synthetic result of a call
mock_result(op, coin, days) ==
    IF op = "hist" THEN generate_historical_data(coin, days)
                   ELSE mock_get_current_price(coin)

real_result(op, days) == IF op = "hist" THEN RealSeries(days) ELSE RealQuote

\* The body of `for attempt in range(max_retries)` of get_historical_data
\* (op = "hist") and get_current_price (op = "price"), from attempt a on.
\* answers[a] is the provider's answer to the request of attempt a.
\* The value is [ret, failed, events]: what is returned, api_failed at the
\* end, and the adapter calls, sleeps and flag writes in order.
RECURSIVE fetch_loop(_, _, _, _, _, _, _, _)
fetch_loop(op, coin, days, max_retries, answers, a, failed, events) ==
    IF a >= max_retries
    THEN \* the loop is over without a return: `return None`
         [ret |-> FetchNone, failed |-> failed, events |-> events]
    ELSE LET slept == IF a > 0
                      THEN Append(events, Event("sleep", "", wait_time(op, a)))
                      ELSE events
             out == AdapterCall(coin, answers[a])
             called == Append(slept, Event("call", out, 0))
             fallback == [ret |-> mock_result(op, coin, days),
                          failed |-> TRUE,
                          events |-> Append(called, Event("set_flag", "", 0))]
         IN  CASE out = "data" ->
                    [ret |-> real_result(op, days),
                     failed |-> FALSE,
                     events |-> Append(called, Event("clear_flag", "", 0))]
               [] out \in {"none", "empty"} ->
                    IF retry_again(a, max_retries)
                    THEN fetch_loop(op, coin, days, max_retries, answers, a + 1,
                                    failed, called)
                    ELSE \* raise ValueError, caught by the except of the
                         \* last attempt
                         fallback
               [] OTHER -> \* the adapter raised
                    IF retry_again(a, max_retries)
                    THEN fetch_loop(op, coin, days, max_retries, answers, a + 1,
                                    failed,
                                    Append(called, Event("sleep", "", 1)))
                    ELSE fallback

\* one whole call of get_historical_data or get_current_price on fetcher f
fetch_call(op, f, coin, days, max_retries, answers) ==
    IF degraded(f)
    THEN [ret |-> mock_result(op, coin, days), failed |-> api_failed[f],
          events |-> <<>>]
    ELSE fetch_loop(op, coin, days, max_retries, answers, 0, api_failed[f], <<>>)

FetchLog(op, f, coin, period, max_retries, was_failed, was_mock, r) ==
    [op |-> op, fetcher |-> f, coin |-> coin, period |-> period,
     max_retries |-> max_retries, was_failed |-> was_failed,
     was_mock |-> was_mock, events |-> r.events, ret |-> r.ret]

NoFetchLog ==
    [op |-> "none", fetcher |-> "app", coin |-> "BTC", period |-> "1d",
     max_retries |-> 0, was_failed |-> FALSE, was_mock |-> FALSE,
     events |-> <<>>, ret |-> FetchNone]

\* the provider's answers to the requests of one call: one per attempt; when
\* the call sends no request (degraded coordinator, symbol the adapter
\* rejects) there is nothing to choose
Answers(op, f, coin, max_retries) ==
    IF degraded(f) \/ coin \notin CoinSymbols
    THEN {[a \in 0..(max_retries - 1) |-> "none"]}
    ELSE [0..(max_retries - 1) -> ProviderAnswers(op)]

\* DataFetcher.get_historical_data(coin, period, max_retries=...)
GetHistoricalData ==
    \E f \in Fetchers, coin \in Coins, period \in Periods, n \in 0..MaxRetries :
      \E answers \in Answers("hist", f, coin, n) :
        LET r == fetch_call("hist", f, coin, days_map(period), n, answers)
        IN  /\ api_failed' = [api_failed EXCEPT ![f] = r.failed]
            /\ fetch_log' = FetchLog("hist", f, coin, period, n, api_failed[f],
                                     use_mock_data[f], r)
            /\ UNCHANGED <<use_mock_data, seq_vars, art_vars, calc_vars>>

\* DataFetcher.get_current_price(coin, max_retries=...)
GetCurrentPrice ==
    \E f \in Fetchers, coin \in Coins, n \in 0..MaxRetries :
      \E answers \in Answers("price", f, coin, n) :
        LET r == fetch_call("price", f, coin, 0, n, answers)
        IN  /\ api_failed' = [api_failed EXCEPT ![f] = r.failed]
            /\ fetch_log' = FetchLog("price", f, coin, "", n, api_failed[f],
                                     use_mock_data[f], r)
            /\ UNCHANGED <<use_mock_data, seq_vars, art_vars, calc_vars>>

\* MockDataGenerator.prepare_data_for_model: 730 synthetic days through the
\* generator's own indicators
mock_prepare_data_for_model(coin) ==
    [kind |-> "features", source |-> "synthetic",
     rows |-> generate_historical_data(coin, 730).rows, pipeline |-> "mock"]

\* DataFetcher.prepare_data_for_model(coin): the degraded guard, then
\* get_historical_data(coin, period='5y') with the default max_retries=2,
\* then the coordinator's own indicators on whatever that returned
PrepareDataForModel ==
    \E f \in Fetchers, coin \in Coins :
      \E answers \in Answers("hist", f, coin, 2) :
        LET r == fetch_call("hist", f, coin, days_map("5y"), 2, answers)
            out == IF degraded(f)
                   THEN [ret |-> mock_prepare_data_for_model(coin),
                         failed |-> api_failed[f], events |-> <<>>]
                   ELSE IF r.ret.kind = "None" \/ r.ret.rows = 0
                   THEN [r EXCEPT !.ret = mock_prepare_data_for_model(coin)]
                   ELSE [r EXCEPT !.ret = [kind |-> "features",
                                           source |-> r.ret.source,
                                           rows |-> r.ret.rows,
                                           pipeline |-> "coordinator"]]
        IN  /\ api_failed' = [api_failed EXCEPT ![f] = out.failed]
            /\ fetch_log' = FetchLog("prepare", f, coin, "5y", 2, api_failed[f],
                                     use_mock_data[f], out)
            /\ UNCHANGED <<use_mock_data, seq_vars, art_vars, calc_vars>>

(***************************************************************************)
(* Windowing (PricePredictor.prepare_sequences).  Rows are numbered from   *)
(* 0 as in the code; a window or target is the sequence of its row         *)
(* numbers, which fixes its scaled values.                                 *)
(***************************************************************************)
\* a mutant of prepare_sequences: the loop runs to the last row
prepare_sequences_to_last_row(T, L, H) ==
    [k \in 1..RangeLen(L, T) |->
        LET i == L + k - 1
        IN  [window |-> [j \in 1..L |-> i - L + j - 1],
             target |-> [j \in 1..H |-> i + j - 1]]]

\* the loop `for i in range(self.lookback, len(scaled_data) -
\* self.prediction_days)`: X gets rows i-L .. i-1, y gets rows i .. i+H-1
prepare_sequences(T, L, H) ==
    [k \in 1..RangeLen(L, T - H) |->
        LET i == L + k - 1
        IN  [window |-> [j \in 1..L |-> i - L + j - 1],
             target |-> [j \in 1..H |-> i + j - 1]]]

\* one call of prepare_sequences on a table of seq_in.T rows
PrepareSequences ==
    /\ ~seq_out.done
    /\ seq_out' = [done |-> TRUE,
                   pairs |-> prepare_sequences(seq_in.T, seq_in.L, seq_in.H)]
    /\ UNCHANGED <<seq_in, fetch_vars, art_vars, calc_vars>>

(***************************************************************************)
(* Artifact files and the predictor (PricePredictor), for one symbol.      *)
(* A training run is numbered by run_count; run 0 stands for "no file" /   *)
(* "no model" / "scaler not fitted".                                       *)
(***************************************************************************)
\* PricePredictor.__init__: self.lookback = 60, self.prediction_days = 1
DefaultLookback == 60
DefaultPredictionDays == 1

\* (lookback, prediction_days) pairs a caller may assign before training, the
\* constructor's among them
Settings == {<<DefaultLookback, DefaultPredictionDays>>, <<30, 3>>}

\* feature tables handed to train / predict: the number of rows and the
\* (numeric) columns in table order
TableCols == {<<"Close", "Volume", "RSI">>, <<"Close", "Volume">>}
TableRows == {20, 60, 100}
Tables == [rows : TableRows, cols : TableCols]
NoTable == [rows |-> 0, cols |-> <<>>]

InSeq(x, s) == \E i \in 1..Len(s) : s[i] = x

\* [col for col in wanted if col in present]
Available(wanted, present) ==
    LET keep(c) == InSeq(c, present) IN SelectSeq(wanted, keep)

\* prepare_sequences, lines 97-109: the table's columns, or the fixed list
\* when Close is not among them, restricted to the table's columns
available_cols(cols) ==
    LET feature_cols ==
            IF InSeq("Close", cols) THEN cols
            ELSE <<"Close", "Volume", "MA7", "MA21", "MA50", "RSI", "MACD">>
    IN  Available(feature_cols, cols)

NoModel == [run |-> 0, timesteps |-> 0, nfeat |-> 0, outputs |-> 0]
NoScaler == [run |-> 0, cols |-> <<>>]
NoConfig == [run |-> 0, lookback |-> 0, prediction_days |-> 0, feature_cols |-> <<>>]

\* PricePredictor.__init__; `configured` records that a caller has assigned
\* lookback or prediction_days since construction
NewPredictorObject ==
    [model |-> NoModel, scaler |-> NoScaler, lookback |-> DefaultLookback,
     prediction_days |-> DefaultPredictionDays, configured |-> FALSE]

\* the files and the predictor object as one value, so that a handler can
\* be composed from train, load_model and predict
World ==
    [mf |-> model_file, sf |-> scaler_file, cf |-> config_file,
     rc |-> run_count, p |-> predictor]

\* what an operation did: the steps taken, how it ended, whether the
\* regressor's fit / predict and the scaler's transform were invoked, the
\* rows and columns handed to transform, the files a load read
Log(op, w, data) ==
    [op |-> op, steps |-> <<op>>, outcome |-> "ok", error |-> "",
     fit_invoked |-> FALSE, scaler_invoked |-> FALSE,
     predict_invoked |-> FALSE,
     rows |-> data.rows,
     lookback |-> w.p.lookback, prediction_days |-> w.p.prediction_days,
     fresh |-> (w.p.model.run = 0 /\ ~w.p.configured),
     window_rows |-> 0, window_cols |-> <<>>, forecasts |-> 0,
     seen |-> <<0, 0, 0>>, cfg |-> NoConfig]

Failed(log, error) == [log EXCEPT !.outcome = "error", !.error = error]

\* where a run of train ends: "none" runs to the end; "fit_raises" is fit
\* raising before any checkpoint is written; "after_checkpoint" and
\* "after_scaler" are the run stopping (an exception, the process ending)
\* after that file is written
StopPoints == {"none", "fit_raises", "after_checkpoint", "after_scaler"}

\* PricePredictor.train(data)
train(w, data, stop) ==
    LET r == w.rc + 1
        L == w.p.lookback
        H == w.p.prediction_days
        cols == available_cols(data.cols)
        n == RangeLen(L, data.rows - H)
        fitted == [run |-> r, cols |-> cols]
        m == [run |-> r, timesteps |-> L, nfeat |-> Len(cols), outputs |-> H]
        w0 == [w EXCEPT !.rc = r]
        \* prepare_sequences has refitted self.scaler in place
        w1 == [w0 EXCEPT !.p.scaler = fitted]
        \* self.model = self.create_model(...)
        w2 == [w1 EXCEPT !.p.model = m]
        log == Log("train", w, data)
        inv == [log EXCEPT !.fit_invoked = TRUE]
    IN  IF cols = <<>>
        THEN [w |-> w0, log |-> Failed(log, "ValueError: no valid feature columns")]
        ELSE IF n > 0 /\ ~InSeq("Close", cols)
        THEN [w |-> w1, log |-> Failed(log, "ValueError: 'Close' is not in list")]
        ELSE IF n = 0
        THEN \* X is an empty array: X.shape[1] at line 167
             [w |-> w1, log |-> Failed(log, "IndexError: tuple index out of range")]
        ELSE IF stop = "fit_raises" \/ (n * 8) \div 10 = 0
        THEN [w |-> w2, log |-> Failed(inv, "fit raised")]
        ELSE IF stop = "after_checkpoint"
        THEN [w |-> [w2 EXCEPT !.mf = m], log |-> Failed(inv, "stopped")]
        ELSE IF stop = "after_scaler"
        THEN [w |-> [w2 EXCEPT !.mf = m, !.sf = fitted],
              log |-> Failed(inv, "stopped")]
        ELSE [w |-> [w2 EXCEPT !.mf = m, !.sf = fitted,
                               !.cf = [run |-> r, lookback |-> L,
                                       prediction_days |-> H,
                                       feature_cols |-> cols]],
              log |-> inv]

\* PricePredictor.load_model()
load_model(w) ==
    LET log == Log("load", w, NoTable)
        w1 == [w EXCEPT !.p.model = w.mf, !.p.scaler = w.sf]
    IN  IF w.mf.run # 0 /\ w.sf.run # 0
        THEN IF w.cf.run = 0
             THEN [w |-> w1, log |-> Failed(log, "FileNotFoundError: config")]
             ELSE [w |-> w1,
                   log |-> [log EXCEPT !.seen = <<w.mf.run, w.sf.run, w.cf.run>>,
                                       !.cfg = w.cf]]
        ELSE [w |-> w, log |-> [log EXCEPT !.outcome = "false"]]

\* PricePredictor.predict(data).  `accepts` is whether the regressor takes
\* an input whose shape differs from the one it was built for
predict(w, data, accepts) ==
    LET log0 == Log("predict", w, data)
        ld == IF w.p.model.run = 0
              THEN load_model(w)
              ELSE [w |-> w, log |-> log0]
        w1 == ld.w
        q == w1.p
        log == [log0 EXCEPT !.steps = IF w.p.model.run = 0
                                      THEN <<"load", "predict">>
                                      ELSE <<"predict">>]
        cfg == w1.cf
        avail == Available(cfg.feature_cols, data.cols)
        rows_used == Min(data.rows, q.lookback)
        seen == [log EXCEPT !.cfg = cfg,
                            !.scaler_invoked = TRUE,
                            !.seen = <<q.model.run, q.scaler.run, cfg.run>>,
                            !.window_rows = rows_used,
                            !.window_cols = avail]
        inv == [seen EXCEPT !.predict_invoked = TRUE]
    IN  IF ld.log.outcome = "false"
        THEN [w |-> w1, log |-> Failed(log, "ValueError: no trained model")]
        ELSE IF ld.log.outcome = "error"
        THEN [w |-> w1, log |-> Failed(log, ld.log.error)]
        ELSE IF cfg.run = 0
        THEN [w |-> w1, log |-> Failed(log, "FileNotFoundError: config")]
        ELSE IF Len(avail) # Len(q.scaler.cols)
        THEN \* scaler.transform: the scaler was fitted on another number
             \* of columns
             [w |-> w1, log |-> Failed(seen, "ValueError: scaler feature count")]
        ELSE IF (rows_used # q.model.timesteps \/ Len(avail) # q.model.nfeat)
                /\ ~accepts
        THEN [w |-> w1, log |-> Failed(inv, "regressor input shape")]
        ELSE IF ~InSeq("Close", avail)
        THEN [w |-> w1, log |-> Failed(inv, "ValueError: 'Close' is not in list")]
        ELSE IF q.prediction_days # 1
                /\ q.model.outputs \notin {1, q.prediction_days}
        THEN [w |-> w1, log |-> Failed(inv, "ValueError: could not broadcast")]
        ELSE [w |-> w1, log |-> [inv EXCEPT !.forecasts = q.prediction_days]]

\* app.py, predict_price lines 92-101 and get_all_data lines 195-200: a new
\* PricePredictor, load_model() or else train(data), then predict(data).
\* An exception anywhere ends the handler with an error response.
load_or_train_then_predict(op, w, data, stop, accepts) ==
    LET wf == [w EXCEPT !.p = NewPredictorObject]
        ld == load_model(wf)
        trained == ld.log.outcome = "false"
        tr == IF trained THEN train(ld.w, data, stop) ELSE ld
        pr == predict(tr.w, data, accepts)
        steps == IF trained THEN <<"load", "train">> ELSE <<"load">>
        head == [Log(op, wf, data) EXCEPT !.steps = steps,
                                          !.fit_invoked = tr.log.fit_invoked]
    IN  IF tr.log.outcome = "error"
        THEN [w |-> tr.w, log |-> Failed(head, tr.log.error)]
        ELSE [w |-> pr.w,
              log |-> [pr.log EXCEPT !.op = op,
                                     !.steps = Append(steps, "predict"),
                                     !.fit_invoked = tr.log.fit_invoked,
                                     !.fresh = TRUE]]

\* app.py predict_price, lines 86-101, given the table that
\* prepare_data_for_model returned
api_predict(w, data, stop, accepts) ==
    IF data.rows < 60
    THEN [w |-> w,
          log |-> Failed([Log("api_predict", [w EXCEPT !.p = NewPredictorObject],
                              data) EXCEPT !.steps = <<>>],
                         "Insufficient data for prediction")]
    ELSE load_or_train_then_predict("api_predict", w, data, stop, accepts)

\* app.py train_model, lines 140-152
api_train(w, data, stop) ==
    LET wf == [w EXCEPT !.p = NewPredictorObject]
        tr == train(wf, data, stop)
    IN  IF data.rows < 100
        THEN [w |-> w,
              log |-> Failed([Log("api_train", wf, data) EXCEPT !.steps = <<>>],
                             "Insufficient data for training")]
        ELSE [w |-> tr.w, log |-> [tr.log EXCEPT !.op = "api_train"]]

\* app.py get_all_data, lines 194-200: no row check before the predictor
api_all(w, data, stop, accepts) ==
    load_or_train_then_predict("api_all", w, data, stop, accepts)

\* `if df is None or len(df) < 100`
MinEvalRows == 100

\* a mutant of check_accuracy: the scaler it used is saved back to its file
check_accuracy_saving(w, data, accepts) ==
    LET wf == [w EXCEPT !.p = NewPredictorObject]
        ld == load_model(wf)
    IN  [w |-> [ld.w EXCEPT !.sf = [run |-> w.rc + 1, cols |-> data.cols]],
         log |-> [Log("evaluate", wf, data) EXCEPT !.steps = <<"load", "evaluate">>]]

\* check_accuracy.py, evaluate_model_accuracy lines 19-59: the table must
\* have 100 rows, then a new PricePredictor, load_model(), the manifest
\* read from the config file, scaler.transform on the whole table, and for
\* every evaluated index model.predict and scaler.inverse_transform.  The
\* default days_to_test of 30 leaves indices to evaluate whenever the table
\* is longer than lookback.
check_accuracy(w, data, accepts) ==
    LET wf == [w EXCEPT !.p = NewPredictorObject]
        log0 == Log("evaluate", wf, data)
        ld == load_model(wf)
        q == ld.w.p
        cfg == ld.w.cf
        avail == Available(cfg.feature_cols, data.cols)
        log == [log0 EXCEPT !.steps = <<"load", "evaluate">>]
        seen == [log EXCEPT !.cfg = cfg,
                            !.scaler_invoked = TRUE,
                            !.seen = <<q.model.run, q.scaler.run, cfg.run>>,
                            !.window_rows = q.lookback,
                            !.window_cols = avail]
        inv == [seen EXCEPT !.predict_invoked = TRUE]
    IN  IF data.rows < MinEvalRows
        THEN [w |-> wf, log |-> [log0 EXCEPT !.outcome = "None"]]
        ELSE IF ld.log.outcome = "false"
        THEN [w |-> ld.w, log |-> [log EXCEPT !.outcome = "None"]]
        ELSE IF ld.log.outcome = "error"
        THEN [w |-> ld.w, log |-> Failed(log, ld.log.error)]
        ELSE IF Len(avail) # Len(q.scaler.cols)
        THEN [w |-> ld.w, log |-> Failed(seen, "ValueError: scaler feature count")]
        ELSE IF ~InSeq("Close", avail)
        THEN [w |-> ld.w, log |-> Failed(seen, "ValueError: 'Close' is not in list")]
        ELSE IF (q.lookback # q.model.timesteps \/ Len(avail) # q.model.nfeat)
                /\ ~accepts
        THEN [w |-> ld.w, log |-> Failed(inv, "regressor input shape")]
        ELSE [w |-> ld.w, log |-> inv]

\* the files and the predictor object in hand become those of w
Becomes(w) ==
    /\ model_file' = w.mf
    /\ scaler_file' = w.sf
    /\ config_file' = w.cf
    /\ run_count' = w.rc
    /\ predictor' = w.p
    /\ UNCHANGED <<fetch_vars, seq_vars, calc_vars>>

\* the files become those of w; the PricePredictor of an API handler was a
\* local object, the one in hand is untouched
Handled(w) == Becomes([w EXCEPT !.p = predictor])

\* whether load_model() of a new predictor would return False, so that a
\* handler goes on to train
WouldTrain == model_file.run = 0 \/ scaler_file.run = 0

\* predictor = PricePredictor(coin)
NewPredictor ==
    /\ predictor # NewPredictorObject
    /\ predictor' = NewPredictorObject
    /\ pred_log' = Log("new", [World EXCEPT !.p = NewPredictorObject], NoTable)
    /\ UNCHANGED <<model_file, scaler_file, config_file, run_count,
                   fetch_vars, seq_vars, calc_vars>>

\* a caller assigns predictor.lookback / predictor.prediction_days, the
\* attributes of lines 30-31, before training
Configure ==
    \E set \in Settings :
        /\ predictor.model.run = 0
        /\ set # <<predictor.lookback, predictor.prediction_days>>
        /\ predictor' = [predictor EXCEPT !.lookback = set[1],
                                          !.prediction_days = set[2],
                                          !.configured = TRUE]
        /\ pred_log' = Log("configure", [World EXCEPT !.p = predictor'], NoTable)
        /\ UNCHANGED <<model_file, scaler_file, config_file, run_count,
                   fetch_vars, seq_vars, calc_vars>>

Train ==
    \E data \in Tables, stop \in StopPoints :
        LET out == train(World, data, stop)
        IN  /\ run_count < MaxRuns
            /\ Becomes(out.w)
            /\ pred_log' = out.log

LoadModel ==
    LET out == load_model(World)
    IN  /\ Becomes(out.w)
        /\ pred_log' = out.log

Predict ==
    \E data \in Tables, accepts \in BOOLEAN :
        LET out == predict(World, data, accepts)
        IN  /\ Becomes(out.w)
            /\ pred_log' = out.log

\* evaluate_model_accuracy(coin): its PricePredictor is a local object
CheckAccuracy ==
    \E data \in Tables, accepts \in BOOLEAN :
        LET out == check_accuracy(World, data, accepts)
        IN  /\ Handled(out.w)
            /\ pred_log' = out.log

ApiPredict ==
    \E data \in Tables, stop \in StopPoints, accepts \in BOOLEAN :
        LET out == api_predict(World, data, stop, accepts)
        IN  /\ WouldTrain => run_count < MaxRuns
            /\ Handled(out.w)
            /\ pred_log' = out.log

ApiTrain ==
    \E data \in Tables, stop \in StopPoints :
        LET out == api_train(World, data, stop)
        IN  /\ run_count < MaxRuns
            /\ Handled(out.w)
            /\ pred_log' = out.log

ApiAll ==
    \E data \in Tables, stop \in StopPoints, accepts \in BOOLEAN :
        LET out == api_all(World, data, stop, accepts)
        IN  /\ WouldTrain => run_count < MaxRuns
            /\ Handled(out.w)
            /\ pred_log' = out.log

(***************************************************************************)
(* The forecast list of PricePredictor.predict (lines 284-315), given the  *)
(* regressor's outputs already mapped back to prices.  A date is its day   *)
(* number (strftime('%Y-%m-%d') is one-to-one on days); day d falls on     *)
(* weekday d % 7.                                                          *)
(***************************************************************************)
\* closes and predicted prices explored (positive, as a valid series has)
Prices == {1, 2}
\* last known dates explored: one for each weekday
LastDates == 0..6

NoForecast ==
    [H |-> 1, prediction |-> <<1>>, last_date |-> 0, current_price |-> 1,
     done |-> FALSE, error |-> "", predictions |-> <<>>]

\* last_date + timedelta(days=k)
timedelta_days(date, k) == date + k

\* a mutant of the date of forecast i: the offset starts at 0
pred_date_from_zero(last_date, i) == timedelta_days(last_date, i)

\* pred_date = last_date + timedelta(days=i+1), i counted from 0
pred_date(last_date, i) == timedelta_days(last_date, i + 1)

\* lines 290-297: the regressor's outputs laid into `prediction`; one value
\* when prediction_days is 1, else prediction_days values (one output is
\* broadcast, any other number of outputs does not fit the column)
lay_out(H, outputs) ==
    IF H = 1 THEN [ok |-> TRUE, prediction |-> <<outputs[1]>>]
    ELSE IF Len(outputs) = H THEN [ok |-> TRUE, prediction |-> outputs]
    ELSE IF Len(outputs) = 1
    THEN [ok |-> TRUE, prediction |-> [i \in 1..H |-> outputs[1]]]
    ELSE [ok |-> FALSE, prediction |-> <<>>]

\* lines 305-315: for i in range(self.prediction_days)
build_predictions(H, prediction, last_date, current_price) ==
    [k \in 1..RangeLen(0, H) |->
        LET i == k - 1
            pred_price == prediction[i + 1]
        IN  [date |-> pred_date(last_date, i),
             price |-> pred_price,
             change_percent |->
                 Rat((pred_price - current_price) * 100, current_price)]]

\* the end of predict, from the regressor's outputs on
Forecast ==
    LET laid == lay_out(forecast.H, forecast.prediction)
    IN  /\ ~forecast.done
        /\ forecast' =
             IF laid.ok
             THEN [forecast EXCEPT
                     !.done = TRUE,
                     !.predictions =
                         build_predictions(forecast.H, laid.prediction,
                                           forecast.last_date,
                                           forecast.current_price)]
             ELSE [forecast EXCEPT !.done = TRUE,
                                   !.error = "ValueError: could not broadcast"]
        /\ UNCHANGED <<fetch_vars, seq_vars, art_vars,
                       scaling, backtest, features, sentiment,
                       cache, engine, groups, adapter>>


(***************************************************************************)
(* The MinMaxScaler of PricePredictor (feature_range (0, 1)): fitted by    *)
(* prepare_sequences on the training table, applied by predict to the      *)
(* window, and inverted on a zero-filled row to turn the regressor's       *)
(* output back into a price.  Arithmetic is exact.                         *)
(***************************************************************************)
RatAdd(a, b) == Rat(a.n * b.d + b.n * a.d, a.d * b.d)
RatSub(a, b) == Rat(a.n * b.d - b.n * a.d, a.d * b.d)
RatMul(a, b) == Rat(a.n * b.n, a.d * b.d)
\* division by a positive fraction
RatDiv(a, b) == Rat(a.n * b.d, a.d * b.n)

\* largest cell value of the training tables explored
MaxValue == 2
\* features of a row: Close and one more column, in either order
NFeatures == 2
\* training tables explored: two rows
TrainingTables == [1..2 -> [1..NFeatures -> 0..MaxValue]]
\* regressor outputs explored: 0, 1/2, 1
ScaledOutputs == {Rat(0, 1), Rat(1, 2), Rat(1, 1)}

NoScaling ==
    [table |-> <<<<0, 0>>, <<0, 0>>>>, close_idx |-> 1, x |-> <<0, 0>>,
     v |-> Rat(0, 1), done |-> FALSE, restored |-> <<>>,
     prediction |-> Rat(0, 1)]

\* column j of a table
Column(table, j) == [r \in 1..Len(table) |-> table[r][j]]

SeqMin(s) == CHOOSE m \in {s[i] : i \in 1..Len(s)} : \A i \in 1..Len(s) : m <= s[i]
SeqMax(s) == CHOOSE m \in {s[i] : i \in 1..Len(s)} : \A i \in 1..Len(s) : m >= s[i]

\* MinMaxScaler.fit: a column whose range is 0 is scaled by 1
handle_zeros_in_scale(data_range) == IF data_range = 0 THEN 1 ELSE data_range

\* MinMaxScaler.fit (inside fit_transform, line 122), per column:
\* scale_ = 1 / range, min_ = 0 - data_min * scale_
fit(table) ==
    [j \in 1..NFeatures |->
        LET data_min == SeqMin(Column(table, j))
            data_max == SeqMax(Column(table, j))
            scale == Rat(1, handle_zeros_in_scale(data_max - data_min))
        IN  [data_min |-> data_min, data_max |-> data_max, scale_ |-> scale,
             min_ |-> RatSub(Rat(0, 1), RatMul(Rat(data_min, 1), scale))]]

\* MinMaxScaler.transform: X * scale_ + min_, column by column
transform(scaler, row) ==
    [j \in 1..NFeatures |->
        RatAdd(RatMul(row[j], scaler[j].scale_), scaler[j].min_)]

\* MinMaxScaler.inverse_transform: (X - min_) / scale_, column by column
inverse_transform(scaler, row) ==
    [j \in 1..NFeatures |->
        RatDiv(RatSub(row[j], scaler[j].min_), scaler[j].scale_)]

\* predict, lines 286-292: a row of zeros with the regressor's output in
\* Close's place, inverted, and Close's place read back
reconstruct(scaler, close_idx, v) ==
    LET dummy == [j \in 1..NFeatures |-> IF j = close_idx THEN v ELSE Rat(0, 1)]
    IN  inverse_transform(scaler, dummy)[close_idx]

\* fit on the training table, then a row through transform and back, and a
\* regressor output through the reconstruction
Scale ==
    LET scaler == fit(scaling.table)
        row == [j \in 1..NFeatures |-> Rat(scaling.x[j], 1)]
    IN  /\ ~scaling.done
        /\ scaling' =
             [scaling EXCEPT
                !.done = TRUE,
                !.restored = inverse_transform(scaler, transform(scaler, row)),
                !.prediction = reconstruct(scaler, scaling.close_idx, scaling.v)]
        /\ UNCHANGED <<fetch_vars, seq_vars, art_vars,
                       forecast, backtest, features, sentiment,
                       cache, engine, groups, adapter>>

(***************************************************************************)
(* evaluate_model_accuracy (check_accuracy.py).  The table has n rows,     *)
(* numbered from 0; its closes and the regressor's predictions are given   *)
(* on the last TailRows rows, every earlier row closing at 1 and being     *)
(* predicted exactly.  predictor.lookback is the constructor's 60, since   *)
(* the function builds a new PricePredictor and load_model sets nothing.   *)
(***************************************************************************)
RECURSIVE GCD(_, _)
GCD(a, b) == IF b = 0 THEN a ELSE GCD(b, a % b)

Abs(x) == IF x < 0 THEN 0 - x ELSE x

\* the same number in lowest terms
Reduce(r) ==
    LET g == GCD(Abs(r.n), r.d)
    IN  IF g = 0 THEN r ELSE Rat(r.n \div g, r.d \div g)

\* rows at the end of the table whose closes and predictions vary
TailRows == 3
\* table lengths explored: one too short, two long enough
EvalLengths == {MinEvalRows - 1, MinEvalRows, MinEvalRows + 1}
\* days_to_test arguments explored: negative, zero, within the tail, longer
\* than the rows that have a full lookback, longer than the table
DaysToTest == {-1, 0, 1, 2, 3, 50, 101}

NoBacktest ==
    [n |-> 0, tail |-> <<1, 1, 1>>, predicted |-> <<1, 1, 1>>,
     days_to_test |-> 0, loaded |-> FALSE, done |-> FALSE, returned |-> "",
     correct |-> 0, total |-> 0, errors |-> 0, windows |-> {},
     directional_accuracy |-> Rat(0, 1), mape |-> Rat(0, 1)]

\* df['Close'].iloc[i]
CloseAt(b, i) ==
    IF i >= b.n - TailRows THEN b.tail[i - (b.n - TailRows) + 1] ELSE 1

\* the price the regressor's output is mapped back to for index i
PredictedAt(b, i) ==
    IF i >= b.n - TailRows THEN b.predicted[i - (b.n - TailRows) + 1] ELSE 1

\* (pred_move > 0 and actual_move > 0) or (pred_move < 0 and actual_move < 0)
same_direction(pred_move, actual_move) ==
    \/ (pred_move > 0 /\ actual_move > 0)
    \/ (pred_move < 0 /\ actual_move < 0)

\* scaled_data[a : b] on a table of n rows, as Python slices: a negative
\* bound counts from the end, bounds are clipped to the table.  The value is
\* the first row taken and how many rows are taken.
py_slice(n, a, b) ==
    LET from == IF a < 0 THEN (IF a + n < 0 THEN 0 ELSE a + n) ELSE Min(a, n)
        to == IF b < 0 THEN (IF b + n < 0 THEN 0 ELSE b + n) ELSE Min(b, n)
    IN  [from |-> from, len |-> RangeLen(from, to)]

\* what one iteration that reaches line 52 adds: the window handed to the
\* regressor, one entry of errors, the two counters
backtest_step(b, lookback, i) ==
    LET input_seq == py_slice(b.n, i - lookback, i)
        predicted_price == PredictedAt(b, i)
        actual_price == CloseAt(b, i)
        prev_price == CloseAt(b, i - 1)
        error_pct == Rat(Abs(predicted_price - actual_price) * 100,
                         actual_price)
        hit == same_direction(predicted_price - prev_price,
                              actual_price - prev_price)
    IN  [correct |-> IF hit THEN 1 ELSE 0,
         total |-> 1,
         errors |-> 1,
         sum |-> Reduce(error_pct),
         windows |-> {[i |-> i, from |-> input_seq.from, len |-> input_seq.len]}]

\* the counters, the list of errors (its length and sum) and the windows
\* before the first iteration
NoIterations ==
    [correct |-> 0, total |-> 0, errors |-> 0, sum |-> Rat(0, 1), windows |-> {}]

\* a mutant of backtest_loop: without the `continue` of lines 49-50
RECURSIVE backtest_loop_without_continue(_, _, _, _)
backtest_loop_without_continue(b, lookback, lo, hi) ==
    IF lo >= hi
    THEN NoIterations
    ELSE IF hi - lo = 1
    THEN backtest_step(b, lookback, lo)
    ELSE LET mid == (lo + hi) \div 2
             first == backtest_loop_without_continue(b, lookback, lo, mid)
             rest == backtest_loop_without_continue(b, lookback, mid, hi)
         IN  [correct |-> first.correct + rest.correct,
              total |-> first.total + rest.total,
              errors |-> first.errors + rest.errors,
              sum |-> Reduce(RatAdd(first.sum, rest.sum)),
              windows |-> first.windows \cup rest.windows]

\* the iterations lo .. hi-1 of the loop `for i in range(start_idx, len(df))`:
\* the counters, the list of errors and the windows of these iterations.
\* All of them accumulate by addition, so the range is folded by halves; an
\* index below lookback is the `continue` of lines 49-50.
RECURSIVE backtest_loop(_, _, _, _)
backtest_loop(b, lookback, lo, hi) ==
    IF lo >= hi
    THEN NoIterations
    ELSE IF hi - lo = 1
    THEN IF lo < lookback
         THEN NoIterations
         ELSE backtest_step(b, lookback, lo)
    ELSE LET mid == (lo + hi) \div 2
             first == backtest_loop(b, lookback, lo, mid)
             rest == backtest_loop(b, lookback, mid, hi)
         IN  [correct |-> first.correct + rest.correct,
              total |-> first.total + rest.total,
              errors |-> first.errors + rest.errors,
              sum |-> Reduce(RatAdd(first.sum, rest.sum)),
              windows |-> first.windows \cup rest.windows]

\* a mutant of line 76: the division is not guarded
directional_accuracy_unguarded(correct_direction, total_predictions) ==
    Rat(correct_direction * 100, total_predictions)

\* (correct_direction / total_predictions * 100) if total_predictions > 0 else 0
directional_accuracy(correct_direction, total_predictions) ==
    IF total_predictions > 0
    THEN Rat(correct_direction * 100, total_predictions)
    ELSE Rat(0, 1)

\* sum(errors) / len(errors) if errors else 0
mean_error(sum, count) ==
    IF count > 0 THEN Rat(sum.n, sum.d * count) ELSE Rat(0, 1)

\* evaluate_model_accuracy(coin, days_to_test)
EvaluateModelAccuracy ==
    LET b == backtest
        start_idx == b.n - b.days_to_test
        acc == backtest_loop(b, DefaultLookback, start_idx, b.n)
    IN  /\ ~b.done
        /\ backtest' =
             IF b.n < MinEvalRows \/ ~b.loaded
             THEN [b EXCEPT !.done = TRUE, !.returned = "None"]
             ELSE [b EXCEPT
                     !.done = TRUE,
                     !.returned = "result",
                     !.correct = acc.correct,
                     !.total = acc.total,
                     !.errors = acc.errors,
                     !.windows = acc.windows,
                     !.directional_accuracy =
                         directional_accuracy(acc.correct, acc.total),
                     !.mape = mean_error(acc.sum, acc.errors)]
        /\ UNCHANGED <<fetch_vars, seq_vars, art_vars,
                       forecast, scaling, features, sentiment,
                       cache, engine, groups, adapter>>

(***************************************************************************)
(* The feature table of DataFetcher.prepare_data_for_model (lines 283-291):*)
(* calculate_technical_indicators, add_sentiment_data, dropna.  Rows are   *)
(* numbered from 0.  The OHLCV input is a series of T rows around a price  *)
(* level: the close cycles through level, level+1, level+2, level+3 with   *)
(* high and low one above and below, except on a stretch of flat_len rows  *)
(* from row flat_from on, where the close stays at level and high and low  *)
(* are `spread` away from it.  For every column and row the model says     *)
(* whether the cell is a number, NaN or Inf.                               *)
(***************************************************************************)
RECURSIVE SumSeq(_)
SumSeq(s) == IF s = <<>> THEN 0 ELSE Head(s) + SumSeq(Tail(s))

\* lengths of the input series explored
SeriesLengths == {0, 49, 64, 90, 120}
\* price levels explored
Levels == {10, 100}
\* first rows and lengths of the flat stretch explored; 0 rows is no stretch
FlatFrom == {0, 60}
FlatLen == {0, 20, 120}
\* what the sentiment fetcher returns: None, observations that cover some
\* date of the series, or observations none of which falls on a date of it
FngModes == {"none", "some", "nomatch"}

NoFeatures ==
    [T |-> 0, level |-> 10, flat_from |-> 0, flat_len |-> 0, spread |-> 0,
     fng |-> "none", done |-> FALSE, rows |-> {}, rsi |-> <<>>,
     bb_width_sq |-> <<>>, has_inf |-> FALSE]

InFlat(f, i) == f.flat_from <= i /\ i < f.flat_from + f.flat_len

Close(f, i) == IF InFlat(f, i) THEN f.level ELSE f.level + (i % 4)
High(f, i) == Close(f, i) + (IF InFlat(f, i) THEN f.spread ELSE 1)
Low(f, i) == Close(f, i) - (IF InFlat(f, i) THEN f.spread ELSE 1)

\* data['Close'].diff(), with delta.where(delta > 0, 0) / (delta < 0, 0)
\* turning the undefined first difference into 0
delta(f, i) == IF i = 0 THEN 0 ELSE Close(f, i) - Close(f, i - 1)

\* the rows i-w+1 .. i of a rolling window
Window(i, w) == (i - w + 1)..i

\* gain / loss: rolling(window=14).mean() of the positive / negated
\* negative differences, as the sums over the window (the means are these
\* over 14)
gain(f, i) ==
    SumSeq([k \in 1..14 |->
              LET d == delta(f, i - 14 + k) IN IF d > 0 THEN d ELSE 0])
loss(f, i) ==
    SumSeq([k \in 1..14 |->
              LET d == delta(f, i - 14 + k) IN IF d < 0 THEN 0 - d ELSE 0])

\* rs = gain / loss; RSI = 100 - (100 / (1 + rs)): 0/0 is NaN, gain/0 is
\* inf and gives 100
RSI(f, i) ==
    IF i < 13 THEN [kind |-> "nan", v |-> Rat(0, 1)]
    ELSE IF gain(f, i) = 0 /\ loss(f, i) = 0
    THEN [kind |-> "nan", v |-> Rat(0, 1)]
    ELSE IF loss(f, i) = 0 THEN [kind |-> "num", v |-> Rat(100, 1)]
    ELSE [kind |-> "num",
          v |-> Rat(100 * gain(f, i), gain(f, i) + loss(f, i))]

\* (BB_Upper - BB_Lower) squared: (4 * rolling(20).std()) ** 2, the std
\* being the sample deviation of the 20 closes
BB_width_sq(f, i) ==
    LET x == [k \in 1..20 |-> Close(f, i - 20 + k) - Close(f, i - 19)]
        sq == [k \in 1..20 |-> x[k] * x[k]]
    IN  Rat(16 * (20 * SumSeq(sq) - SumSeq(x) * SumSeq(x)), 20 * 19)

\* Stochastic_K = 100 * (Close - low_14) / (high_14 - low_14); the highest
\* high of the 14 rows equals their lowest low exactly when every high and
\* low of the window is the same price
Stochastic_K(f, i) ==
    IF i < 13 THEN "nan"
    ELSE IF \E k \in Window(i, 14) :
                High(f, k) # Low(f, i) \/ Low(f, k) # Low(f, i)
    THEN "num"
    ELSE IF Close(f, i) = Low(f, i) THEN "nan" ELSE "inf"

\* Stochastic_D = Stochastic_K.rolling(window=3).mean()
Stochastic_D(f, i) ==
    IF i < 2 \/ \E k \in Window(i, 3) : Stochastic_K(f, k) = "nan" THEN "nan"
    ELSE IF \E k \in Window(i, 3) : Stochastic_K(f, k) = "inf" THEN "inf"
    ELSE "num"

\* dx = 100 * |plus_di - minus_di| / (plus_di + minus_di): the 14-row sums
\* of the upward moves of High and of the downward moves of Low over tr14;
\* undefined on the first 14 rows and 0/0 when neither moved
dx(f, i) ==
    IF i < 14 THEN "nan"
    ELSE IF /\ \A k \in Window(i, 14) : High(f, k) <= High(f, k - 1)
            /\ \A k \in Window(i, 14) : Low(f, k) >= Low(f, k - 1)
    THEN "nan"
    ELSE "num"

\* ADX = dx.rolling(14).mean()
ADX(f, i) ==
    IF i < 13 \/ \E k \in Window(i, 14) : dx(f, k) = "nan" THEN "nan" ELSE "num"

\* add_sentiment_data: no column when the fetcher returns None; else the
\* merged FNG_Score after ffill and bfill, which is NaN on every row when
\* no observation falls on a date of the series
FNG_Score(f, i) == IF f.fng = "nomatch" THEN "nan" ELSE "num"

\* whether row i has a NaN in some column: the rolling means, deviations,
\* minima and maxima are undefined until their window is full (7, 21, 50,
\* 20, 14 rows), the exponential means never
HasNaN(f, i) ==
    \/ i < 49                        \* MA50, Fib_*, Dist_Fib_382 (MA7, MA21,
                                     \* BB_*, Volume_MA, ATR, OBV_MA before)
    \/ RSI(f, i).kind = "nan"
    \/ Stochastic_K(f, i) = "nan"
    \/ Stochastic_D(f, i) = "nan"
    \/ ADX(f, i) = "nan"
    \/ FNG_Score(f, i) = "nan"

HasInf(f, i) == Stochastic_K(f, i) = "inf" \/ Stochastic_D(f, i) = "inf"

\* the rows that df.dropna() keeps
dropna(f) == {i \in 0..(f.T - 1) : ~HasNaN(f, i)}

\* prepare_data_for_model, lines 283-291, on the series in hand
BuildFeatures ==
    LET f == features
        kept == dropna(f)
    IN  /\ ~f.done
        /\ features' =
             [f EXCEPT
                !.done = TRUE,
                !.rows = kept,
                !.rsi = [i \in kept |-> RSI(f, i).v],
                !.bb_width_sq = [i \in kept |-> BB_width_sq(f, i)],
                !.has_inf = \E i \in kept : HasInf(f, i)]
        /\ UNCHANGED <<fetch_vars, seq_vars, art_vars,
                       forecast, scaling, backtest, sentiment,
                       cache, engine, groups, adapter>>

(***************************************************************************)
(* DataFetcher.add_sentiment_data: the Fear & Greed observations merged    *)
(* into the price rows by date.  The price rows are dated 1 .. MaxDays in  *)
(* order; the sentiment frame has at most one observation per date.        *)
(***************************************************************************)
\* price rows (dates) explored
MaxDays == 4

\* no observation on a date; its score stands for NaN
Missing == [score |-> -1, category |-> "NaN"]
\* observations explored
Observations ==
    {[score |-> 20, category |-> "Bad"], [score |-> 80, category |-> "Good"]}

NoSentiment ==
    [obs |-> [d \in 1..MaxDays |-> Missing], fetched |-> FALSE, done |-> FALSE,
     has_column |-> FALSE, FNG_Score |-> <<>>]

\* pd.merge(df, sentiment_subset, on='Date_Str', how='left'): the score
\* observed on the row's date, NaN when there is none
merge_left(obs) == [d \in 1..MaxDays |-> obs[d].score]

\* fillna(method='ffill'): a NaN takes the last value before it, if any
ffill(col) ==
    [d \in 1..Len(col) |->
        IF col[d] # Missing.score THEN col[d]
        ELSE LET before == {e \in 1..d : col[e] # Missing.score}
             IN  IF before = {} THEN Missing.score
                 ELSE col[CHOOSE e \in before : \A x \in before : x <= e]]

\* fillna(method='bfill'): a NaN takes the next value after it, if any
bfill(col) ==
    [d \in 1..Len(col) |->
        IF col[d] # Missing.score THEN col[d]
        ELSE LET after == {e \in d..Len(col) : col[e] # Missing.score}
             IN  IF after = {} THEN Missing.score
                 ELSE col[CHOOSE e \in after : \A x \in after : e <= x]]

\* add_sentiment_data(df)
AddSentimentData ==
    /\ ~sentiment.done
    /\ sentiment' =
         IF ~sentiment.fetched
         THEN \* get_sentiment_data() returned None: df is returned as it is
              [sentiment EXCEPT !.done = TRUE]
         ELSE [sentiment EXCEPT
                 !.done = TRUE,
                 !.has_column = TRUE,
                 !.FNG_Score = bfill(ffill(merge_left(sentiment.obs)))]
    /\ UNCHANGED <<fetch_vars, seq_vars, art_vars,
                   forecast, scaling, backtest, features,
                   cache, engine, groups, adapter>>

(***************************************************************************)
(* Cached external series: ExternalMarketFetcher (market indices, file     *)
(* external_market_data.csv) and MarketSentimentFetcher (Fear & Greed      *)
(* index, file market_sentiment.csv).  Dates are day numbers; a frame or a *)
(* file is known by its newest date and the day it was fetched.  The clock *)
(* (datetime.now()) moves by whole days between calls.                     *)
(***************************************************************************)
\* last day of the clock
MaxToday == 4
\* how many days behind the clock the provider's newest row can be (markets
\* are closed on weekends and holidays)
MaxLag == 3

SeriesNames == {"market", "sentiment"}

\* None, and also "no file at cache_path"
NoFrame == [exists |-> FALSE, last_date |-> 0, fetched_on |-> 0]

Frame(last_date, today) ==
    [exists |-> TRUE, last_date |-> last_date, fetched_on |-> today]

\* what the provider can answer on a day: nothing (transport error, API
\* error, no rows at all) or rows up to a newest date
NoAnswer == [ok |-> FALSE, newest |-> 0]
FetchAnswers(today) ==
    {NoAnswer} \cup {[ok |-> TRUE, newest |-> d] : d \in (today - MaxLag)..today}

\* `last_date < (datetime.now() - timedelta(days=2)).date()`
market_outdated(last_date, today) == last_date < today - 2

\* `last_date.date() < datetime.now().date()`
sentiment_outdated(last_date, today) == last_date < today

outdated(series, last_date, today) ==
    IF series = "market" THEN market_outdated(last_date, today)
                         ELSE sentiment_outdated(last_date, today)

\* fetch_historical_data / fetch_historical_fng: None without touching the
\* file when nothing was fetched, else the frame, written to cache_path.
\* The value is [ret, file].
fetch_historical(file, today, answer) ==
    IF ~answer.ok
    THEN [ret |-> NoFrame, file |-> file]
    ELSE [ret |-> Frame(answer.newest, today),
          file |-> Frame(answer.newest, today)]

\* get_market_data / get_sentiment_data.  The value is [ret, file, refetched].
get_data(series, file, today, answer) ==
    IF file.exists
    THEN IF outdated(series, file.last_date, today)
         THEN [refetched |-> TRUE] @@ fetch_historical(file, today, answer)
         ELSE [refetched |-> FALSE, ret |-> file, file |-> file]
    ELSE [refetched |-> TRUE] @@ fetch_historical(file, today, answer)

\* add_sentiment_data, lines 244-246: without a frame the table is returned
\* as it came, with no FNG_Score column
gets_sentiment_column(ret) == ret.exists

NoCacheLog ==
    [series |-> "none", on |-> 0, before |-> NoFrame, answer |-> NoAnswer,
     refetched |-> FALSE, ret |-> NoFrame]

NoCache ==
    [today |-> 0, market |-> NoFrame, sentiment |-> NoFrame, log |-> NoCacheLog]

CacheLog(series, today, before, answer, r) ==
    [series |-> series, on |-> today, before |-> before, answer |-> answer,
     refetched |-> r.refetched, ret |-> r.ret]

\* ExternalMarketFetcher.get_market_data()
GetMarketData ==
    \E answer \in FetchAnswers(cache.today) :
        LET r == get_data("market", cache.market, cache.today, answer)
        IN  /\ cache' = [cache EXCEPT
                           !.market = r.file,
                           !.log = CacheLog("market", cache.today, cache.market,
                                            answer, r)]
            /\ UNCHANGED <<fetch_vars, seq_vars, art_vars,
                           forecast, scaling, backtest, features, sentiment,
                           engine, groups, adapter>>

\* MarketSentimentFetcher.get_sentiment_data()
GetSentimentData ==
    \E answer \in FetchAnswers(cache.today) :
        LET r == get_data("sentiment", cache.sentiment, cache.today, answer)
        IN  /\ cache' = [cache EXCEPT
                           !.sentiment = r.file,
                           !.log = CacheLog("sentiment", cache.today,
                                            cache.sentiment, answer, r)]
            /\ UNCHANGED <<fetch_vars, seq_vars, art_vars,
                           forecast, scaling, backtest, features, sentiment,
                           engine, groups, adapter>>

\* midnight: datetime.now().date() moves on by one day
Midnight ==
    /\ cache.today < MaxToday
    /\ cache' = [cache EXCEPT !.today = cache.today + 1]
    /\ UNCHANGED <<fetch_vars, seq_vars, art_vars,
                   forecast, scaling, backtest, features, sentiment,
                   engine, groups, adapter>>

(***************************************************************************)
(* The feature functions as the caller sees them.  A table is its set of   *)
(* columns and its number of rows; a function is given the caller's table  *)
(* object and returns a table.  The value of each function is [ret, arg]:  *)
(* the table returned and the caller's table after the call (assignments   *)
(* `df[...] = ...` on the argument itself show in arg).                    *)
(***************************************************************************)
\* how many times in a row the function is called on the caller's table
MaxCalls == 2

\* columns of the adapter's and of the generator's frame
OHLCV == {"Date", "Open", "High", "Low", "Close", "Volume"}

\* columns assigned by DataFetcher.calculate_technical_indicators
technical_columns ==
    {"MA7", "MA21", "MA50", "EMA12", "EMA26", "MACD", "Signal_Line", "RSI",
     "BB_Middle", "BB_Upper", "BB_Lower", "Volume_MA", "ATR", "Stochastic_K",
     "Stochastic_D", "OBV", "OBV_MA", "ADX", "Fib_0.236", "Fib_0.382",
     "Fib_0.618", "Dist_Fib_382"}

\* columns assigned by MockDataGenerator._calculate_indicators
mock_columns ==
    {"MA7", "MA21", "MA50", "EMA12", "EMA26", "MACD", "Signal_Line", "RSI",
     "BB_Middle", "BB_Upper", "BB_Lower", "Volume_MA"}

\* columns assigned by calculate_advanced_indicators
advanced_columns ==
    {"Stoch_K", "Stoch_D", "ATR", "OBV", "OBV_MA", "Williams_R", "CCI", "ROC",
     "MFI", "Tenkan_sen", "Kijun_sen", "Momentum", "Volatility", "High_52w",
     "Low_52w", "Price_Position"}

With(df, columns) == [df EXCEPT !.cols = df.cols \cup columns]
Without(df, columns) == [df EXCEPT !.cols = df.cols \ columns]

\* `data = df.copy()`, the assignments go to data, `return data`
calculate_technical_indicators(df) ==
    [ret |-> With(df, technical_columns), arg |-> df]

\* add_sentiment_data(df): `df['Date_Str'] = ...` on the argument, then the
\* merge result with FNG_Score and without Date_Str; the argument itself
\* when the sentiment fetcher gave None
add_sentiment_data(df, fetched) ==
    IF ~fetched
    THEN [ret |-> df, arg |-> df]
    ELSE [ret |-> Without(With(df, {"Date_Str", "FNG_Score"}), {"Date_Str"}),
          arg |-> With(df, {"Date_Str"})]

\* calculate_advanced_indicators(df): every assignment goes to the
\* argument, `return df`
calculate_advanced_indicators(df) ==
    [ret |-> With(df, advanced_columns), arg |-> With(df, advanced_columns)]

\* the columns of the table prepare_data_for_model returns: through
\* MockDataGenerator.prepare_data_for_model (pipeline "mock") the generator's
\* frame with the generator's indicators; else the coordinator's indicators
\* and sentiment merge on the frame it fetched.  dropna removes rows only.
prepared_columns(pipeline, fetched) ==
    IF pipeline = "mock"
    THEN OHLCV \cup mock_columns
    ELSE LET df == [cols |-> OHLCV, rows |-> 0]
             data == calculate_technical_indicators(df).ret
         IN  add_sentiment_data(data, fetched).ret.cols

FeatureFunctions ==
    {"calculate_technical_indicators", "add_sentiment_data",
     "calculate_advanced_indicators"}

feature_function(fn, df, fetched) ==
    CASE fn = "calculate_technical_indicators" ->
             calculate_technical_indicators(df)
      [] fn = "add_sentiment_data" -> add_sentiment_data(df, fetched)
      [] OTHER -> calculate_advanced_indicators(df)

\* the caller's tables explored: fresh OHLCV rows, or rows that already
\* carry the coordinator's indicators
InputTables ==
    [cols : {OHLCV, OHLCV \cup technical_columns}, rows : {0, 1, 60, 100, 730}]

NoEngine ==
    [fn |-> "calculate_technical_indicators",
     input |-> [cols |-> {}, rows |-> 0], arg |-> [cols |-> {}, rows |-> 0],
     calls |-> 0, fetched |-> <<>>, outputs |-> <<>>, args |-> <<>>]

\* one call `out = fn(df)` on the caller's table df
CallFeatureFunction ==
    \E fetched \in BOOLEAN :
        LET r == feature_function(engine.fn, engine.arg, fetched)
        IN  /\ engine.calls < MaxCalls
            /\ engine.fn # "add_sentiment_data" => fetched
            /\ engine' = [engine EXCEPT
                            !.calls = engine.calls + 1,
                            !.arg = r.arg,
                            !.fetched = Append(engine.fetched, fetched),
                            !.outputs = Append(engine.outputs, r.ret),
                            !.args = Append(engine.args, r.arg)]
            /\ UNCHANGED <<fetch_vars, seq_vars, art_vars,
                           forecast, scaling, backtest, features, sentiment,
                           cache, groups, adapter>>

(***************************************************************************)
(* AdvancedFeatureEngineer: the groups 1 to 10 of generate_all_features,   *)
(* each by the columns it reads from the table it is given and the columns *)
(* it assigns.  Reading a column the table does not have raises KeyError.  *)
(***************************************************************************)
\* the _add_* methods in the order generate_all_features calls them
GroupOrder ==
    <<"raw_price_features", "candle_features", "returns_momentum",
      "moving_averages", "momentum_indicators", "volatility_features",
      "volume_features", "support_resistance", "time_features",
      "lag_features">>

GroupNames == {GroupOrder[k] : k \in 1..Len(GroupOrder)}

\* df[...] read by the group and not assigned by the group before the read
Reads(g) ==
    CASE g = "raw_price_features" -> {"High", "Low", "Close"}
      [] g = "candle_features" -> {"Open", "High", "Low", "Close"}
      [] g = "returns_momentum" -> {"Close"}
      [] g = "moving_averages" -> {"Close"}
      [] g = "momentum_indicators" -> {"Close"}
      [] g = "volatility_features" -> {"High", "Low", "Close"}
      [] g = "volume_features" -> {"Volume", "Close", "Typical_Price"}
      [] g = "support_resistance" -> {"High", "Low", "Close"}
      [] g = "time_features" -> {}
      [] OTHER -> {"Close", "RSI", "EMA_20", "EMA_50", "Return_1"}

\* df[...] assigned by the group
Writes(g) ==
    CASE g = "raw_price_features" -> {"Typical_Price"}
      [] g = "candle_features" ->
             {"Body_Size", "Upper_Wick", "Lower_Wick", "Candle_Direction",
              "Range"}
      [] g = "returns_momentum" ->
             {"Log_Return", "Return_1", "Return_3", "Return_5",
              "Rolling_Mean_Return_5", "Rolling_Std_5"}
      [] g = "moving_averages" ->
             {"EMA_9", "EMA_20", "EMA_50", "EMA_100", "EMA_200",
              "Close_minus_EMA20", "Close_minus_EMA50", "Close_minus_EMA200",
              "EMA20_minus_EMA50", "EMA50_minus_EMA200", "EMA20_Slope",
              "EMA50_Slope"}
      [] g = "momentum_indicators" ->
             {"RSI", "RSI_Slope", "RSI_minus_50", "MACD", "MACD_Signal",
              "MACD_Hist", "Stoch_RSI_K", "Stoch_RSI_D"}
      [] g = "volatility_features" ->
             {"ATR", "ATR_Normalized", "BB_Upper", "BB_Lower", "BB_Width",
              "BB_Percent"}
      [] g = "volume_features" ->
             {"Volume_Change", "Volume_MA20", "OBV", "VWAP", "Close_minus_VWAP",
              "Volume_Ratio"}
      [] g = "support_resistance" ->
             {"Rolling_High_20", "Rolling_Low_20", "Distance_to_Resistance",
              "Distance_to_Support", "Breakout_Flag", "Breakdown_Flag"}
      [] g = "time_features" ->
             {"Hour_Sin", "Hour_Cos", "DayOfWeek_Sin", "DayOfWeek_Cos"}
      [] OTHER ->
             {"Close_Lag1", "Close_Lag2", "Close_Lag3", "Close_Lag5",
              "RSI_Lag1", "RSI_Lag2", "EMA20_Lag1", "EMA50_Lag1",
              "Return1_Lag1", "Return1_Lag3"}

\* df = self._add_<g>(df) on the table t = [cols, applied, failed]
add_group(t, g) ==
    IF Reads(g) \subseteq t.cols
    THEN [t EXCEPT !.cols = t.cols \cup Writes(g),
                   !.applied = t.applied \cup {g}]
    ELSE [t EXCEPT !.failed = g]

\* the groups order[k..] applied one after the other; a KeyError ends it
RECURSIVE add_groups(_, _, _)
add_groups(t, order, k) ==
    IF k > Len(order) \/ t.failed # ""
    THEN t
    ELSE add_groups(add_group(t, order[k]), order, k + 1)

\* `df = df.copy()` of an OHLCV table
NoGroups == [cols |-> OHLCV \ {"Date"}, applied |-> {}, failed |-> ""]

\* generate_all_features(df) without sentiment_data
generate_all_features(t) == add_groups(t, GroupOrder, 1)

\* the _add_* methods called one at a time, in whatever order
AddGroup ==
    \E g \in GroupNames \ groups.applied :
        /\ groups.failed = ""
        /\ groups' = add_group(groups, g)
        /\ UNCHANGED <<fetch_vars, seq_vars, art_vars,
                       forecast, scaling, backtest, features, sentiment,
                       cache, engine, adapter>>

\* AdvancedFeatureEngineer().generate_all_features(df)
GenerateAllFeatures ==
    /\ groups = NoGroups
    /\ groups' = generate_all_features(groups)
    /\ UNCHANGED <<fetch_vars, seq_vars, art_vars,
                   forecast, scaling, backtest, features, sentiment,
                   cache, engine, adapter>>

(***************************************************************************)
(* The provider adapters CryptoCompareAPI and CoinGeckoAPI, one operation  *)
(* at a time, by what the provider sent:                                   *)
(*   "error"     the request failed, the status was an error, or the body  *)
(*               was not what json() / the indexing expects (an exception) *)
(*   "no_symbol" a well-formed body without the requested symbol (a quote) *)
(*               or without rows (a history)                               *)
(*   "no_fields" the symbol's entry is there, its price fields are not     *)
(*   "full"      everything asked for                                      *)
(* A result is raise, None, or a record / frame; `filled` says whether its *)
(* values are the provider's or the .get(..., 0) defaults.                 *)
(***************************************************************************)
Adapters == {"cryptocompare", "coingecko"}

Payloads(op) ==
    IF op = "price" THEN {"error", "no_symbol", "no_fields", "full"}
                    ELSE {"error", "no_symbol", "full"}

Raised == [kind |-> "raise", filled |-> ""]
ReturnedNone == [kind |-> "None", filled |-> ""]
Returned(kind, filled) == [kind |-> kind, filled |-> filled]

\* CryptoCompareAPI.get_current_price(coin)
cryptocompare_get_current_price(coin, payload) ==
    IF coin \notin CoinSymbols THEN Raised
    ELSE CASE payload = "error" -> ReturnedNone
           [] payload = "no_symbol" -> ReturnedNone
           [] payload = "no_fields" -> Returned("record", "defaults")
           [] OTHER -> Returned("record", "provider")

\* CryptoCompareAPI.get_historical_data(coin, days)
cryptocompare_get_historical_data(coin, payload) ==
    IF coin \notin CoinSymbols THEN Raised
    ELSE CASE payload = "error" -> ReturnedNone
           [] payload = "no_symbol" -> ReturnedNone
           [] OTHER -> Returned("series", "provider")

\* CoinGeckoAPI.get_current_price(coin): `coin_data = data.get(coin_id, {})`
\* and the record is built from coin_data.get(..., 0) whatever it holds
coingecko_get_current_price(coin, payload) ==
    IF coin \notin CoinSymbols THEN Raised
    ELSE CASE payload = "error" -> ReturnedNone
           [] payload = "no_symbol" -> Returned("record", "defaults")
           [] payload = "no_fields" -> Returned("record", "defaults")
           [] OTHER -> Returned("record", "provider")

\* CoinGeckoAPI.get_historical_data(coin, days)
coingecko_get_historical_data(coin, payload) ==
    IF coin \notin CoinSymbols THEN Raised
    ELSE CASE payload = "error" -> ReturnedNone
           [] payload = "no_symbol" -> ReturnedNone
           [] OTHER -> Returned("series", "provider")

\* the last operation of an adapter object
AdapterLog(op, coin, payload, result) ==
    [op |-> op, coin |-> coin, payload |-> payload, result |-> result]

NoAdapterLog == AdapterLog("none", "BTC", "full", Returned("", ""))

NoAdapter == [a \in Adapters |-> NoAdapterLog]

CryptoCompareGetCurrentPrice ==
    \E coin \in Coins, payload \in Payloads("price") :
        /\ adapter' = [adapter EXCEPT !["cryptocompare"] =
               AdapterLog("price", coin, payload,
                          cryptocompare_get_current_price(coin, payload))]
        /\ UNCHANGED <<fetch_vars, seq_vars, art_vars,
                       forecast, scaling, backtest, features, sentiment,
                       cache, engine, groups>>

CryptoCompareGetHistoricalData ==
    \E coin \in Coins, payload \in Payloads("hist") :
        /\ adapter' = [adapter EXCEPT !["cryptocompare"] =
               AdapterLog("hist", coin, payload,
                          cryptocompare_get_historical_data(coin, payload))]
        /\ UNCHANGED <<fetch_vars, seq_vars, art_vars,
                       forecast, scaling, backtest, features, sentiment,
                       cache, engine, groups>>

CoinGeckoGetCurrentPrice ==
    \E coin \in Coins, payload \in Payloads("price") :
        /\ adapter' = [adapter EXCEPT !["coingecko"] =
               AdapterLog("price", coin, payload,
                          coingecko_get_current_price(coin, payload))]
        /\ UNCHANGED <<fetch_vars, seq_vars, art_vars,
                       forecast, scaling, backtest, features, sentiment,
                       cache, engine, groups>>

CoinGeckoGetHistoricalData ==
    \E coin \in Coins, payload \in Payloads("hist") :
        /\ adapter' = [adapter EXCEPT !["coingecko"] =
               AdapterLog("hist", coin, payload,
                          coingecko_get_historical_data(coin, payload))]
        /\ UNCHANGED <<fetch_vars, seq_vars, art_vars,
                       forecast, scaling, backtest, features, sentiment,
                       cache, engine, groups>>

(***************************************************************************)
(* Specifications.  Each part of the program is explored on its own, the   *)
(* other parts resting in their initial state; Spec is the whole.          *)
(***************************************************************************)
NoSequences == [done |-> FALSE, pairs |-> <<>>]
FirstLog == Log("new", [p |-> NewPredictorObject], NoTable)

\* DataFetcher.__init__ (api_failed = False, use_mock_data as constructed),
\* no artifact on disk, PricePredictor.__init__
Init ==
    /\ api_failed = [f \in Fetchers |-> FALSE]
    /\ use_mock_data \in [Fetchers -> BOOLEAN]
    /\ fetch_log = NoFetchLog
    /\ seq_in \in [T : 0..MaxRows, L : 1..MaxLookback, H : 1..MaxHorizon]
    /\ seq_out = NoSequences
    /\ model_file = NoModel
    /\ scaler_file = NoScaler
    /\ config_file = NoConfig
    /\ run_count = 0
    /\ predictor = NewPredictorObject
    /\ pred_log = FirstLog
    /\ forecast = NoForecast
    /\ scaling = NoScaling
    /\ backtest = NoBacktest
    /\ features = NoFeatures
    /\ sentiment = NoSentiment
    /\ cache = NoCache
    /\ engine = NoEngine
    /\ groups = NoGroups
    /\ adapter = NoAdapter

Next ==
    \/ GetHistoricalData
    \/ GetCurrentPrice
    \/ PrepareDataForModel
    \/ PrepareSequences
    \/ NewPredictor
    \/ Configure
    \/ Train
    \/ LoadModel
    \/ Predict
    \/ ApiPredict
    \/ ApiTrain
    \/ ApiAll
    \/ Forecast
    \/ Scale
    \/ EvaluateModelAccuracy
    \/ BuildFeatures
    \/ AddSentimentData
    \/ GetMarketData
    \/ GetSentimentData
    \/ Midnight
    \/ CheckAccuracy
    \/ CallFeatureFunction
    \/ AddGroup
    \/ GenerateAllFeatures
    \/ CryptoCompareGetCurrentPrice
    \/ CryptoCompareGetHistoricalData
    \/ CoinGeckoGetCurrentPrice
    \/ CoinGeckoGetHistoricalData

Spec == Init /\ [][Next]_vars

\* the ingestion coordinator
InitFetch ==
    /\ api_failed = [f \in Fetchers |-> FALSE]
    /\ use_mock_data \in [Fetchers -> BOOLEAN]
    /\ fetch_log = NoFetchLog
    /\ seq_in = [T |-> 0, L |-> 1, H |-> 1]
    /\ seq_out = NoSequences
    /\ model_file = NoModel
    /\ scaler_file = NoScaler
    /\ config_file = NoConfig
    /\ run_count = 0
    /\ predictor = NewPredictorObject
    /\ pred_log = FirstLog
    /\ forecast = NoForecast
    /\ scaling = NoScaling
    /\ backtest = NoBacktest
    /\ features = NoFeatures
    /\ sentiment = NoSentiment
    /\ cache = NoCache
    /\ engine = NoEngine
    /\ groups = NoGroups
    /\ adapter = NoAdapter

NextFetch ==
    \/ GetHistoricalData
    \/ GetCurrentPrice
    \/ PrepareDataForModel

SpecFetch == InitFetch /\ [][NextFetch]_vars

\* prepare_sequences on every table size, lookback and horizon in the bounds
InitWindow ==
    /\ api_failed = [f \in Fetchers |-> FALSE]
    /\ use_mock_data = [f \in Fetchers |-> FALSE]
    /\ fetch_log = NoFetchLog
    /\ seq_in \in [T : 0..MaxRows, L : 1..MaxLookback, H : 1..MaxHorizon]
    /\ seq_out = NoSequences
    /\ model_file = NoModel
    /\ scaler_file = NoScaler
    /\ config_file = NoConfig
    /\ run_count = 0
    /\ predictor = NewPredictorObject
    /\ pred_log = FirstLog
    /\ forecast = NoForecast
    /\ scaling = NoScaling
    /\ backtest = NoBacktest
    /\ features = NoFeatures
    /\ sentiment = NoSentiment
    /\ cache = NoCache
    /\ engine = NoEngine
    /\ groups = NoGroups
    /\ adapter = NoAdapter

NextWindow == PrepareSequences

SpecWindow == InitWindow /\ [][NextWindow]_vars

\* the predictor and its files
InitArtifact ==
    /\ api_failed = [f \in Fetchers |-> FALSE]
    /\ use_mock_data = [f \in Fetchers |-> FALSE]
    /\ fetch_log = NoFetchLog
    /\ seq_in = [T |-> 0, L |-> 1, H |-> 1]
    /\ seq_out = NoSequences
    /\ model_file = NoModel
    /\ scaler_file = NoScaler
    /\ config_file = NoConfig
    /\ run_count = 0
    /\ predictor = NewPredictorObject
    /\ pred_log = FirstLog
    /\ forecast = NoForecast
    /\ scaling = NoScaling
    /\ backtest = NoBacktest
    /\ features = NoFeatures
    /\ sentiment = NoSentiment
    /\ cache = NoCache
    /\ engine = NoEngine
    /\ groups = NoGroups
    /\ adapter = NoAdapter

\* direct calls on a PricePredictor, as the training scripts make them, and
\* the handlers of app.py
NextArtifact ==
    \/ NewPredictor
    \/ Configure
    \/ Train
    \/ LoadModel
    \/ Predict
    \/ ApiPredict
    \/ ApiTrain
    \/ ApiAll
    \/ CheckAccuracy

SpecArtifact == InitArtifact /\ [][NextArtifact]_vars

\* The predictor's own methods and the evaluation script, with the training
\* endpoint as the other writer of the three files.
NextInference ==
    \/ NewPredictor
    \/ Configure
    \/ Train
    \/ ApiTrain
    \/ LoadModel
    \/ Predict
    \/ CheckAccuracy

SpecInference == InitArtifact /\ [][NextInference]_vars

\* the forecast list of predict, on every input in the bounds
InitForecast ==
    /\ api_failed = [f \in Fetchers |-> FALSE]
    /\ use_mock_data = [f \in Fetchers |-> FALSE]
    /\ fetch_log = NoFetchLog
    /\ seq_in = [T |-> 0, L |-> 1, H |-> 1]
    /\ seq_out = NoSequences
    /\ model_file = NoModel
    /\ scaler_file = NoScaler
    /\ config_file = NoConfig
    /\ run_count = 0
    /\ predictor = NewPredictorObject
    /\ pred_log = FirstLog
    /\ \E H \in 1..MaxHorizon, n \in 1..MaxHorizon :
         forecast \in [H : {H}, prediction : [1..n -> Prices],
                       last_date : LastDates, current_price : Prices,
                       done : {FALSE}, error : {""}, predictions : {<<>>}]
    /\ scaling = NoScaling
    /\ backtest = NoBacktest
    /\ features = NoFeatures
    /\ sentiment = NoSentiment
    /\ cache = NoCache
    /\ engine = NoEngine
    /\ groups = NoGroups
    /\ adapter = NoAdapter

NextForecast == Forecast

SpecForecast == InitForecast /\ [][NextForecast]_vars

\* the scaler, on every training table, row and regressor output in the bounds
InitScaling ==
    /\ api_failed = [f \in Fetchers |-> FALSE]
    /\ use_mock_data = [f \in Fetchers |-> FALSE]
    /\ fetch_log = NoFetchLog
    /\ seq_in = [T |-> 0, L |-> 1, H |-> 1]
    /\ seq_out = NoSequences
    /\ model_file = NoModel
    /\ scaler_file = NoScaler
    /\ config_file = NoConfig
    /\ run_count = 0
    /\ predictor = NewPredictorObject
    /\ pred_log = FirstLog
    /\ forecast = NoForecast
    /\ scaling \in [table : TrainingTables, close_idx : 1..NFeatures,
                    x : [1..NFeatures -> 0..MaxValue], v : ScaledOutputs,
                    done : {FALSE}, restored : {<<>>}, prediction : {Rat(0, 1)}]
    /\ backtest = NoBacktest
    /\ features = NoFeatures
    /\ sentiment = NoSentiment
    /\ cache = NoCache
    /\ engine = NoEngine
    /\ groups = NoGroups
    /\ adapter = NoAdapter

NextScaling == Scale

SpecScaling == InitScaling /\ [][NextScaling]_vars

\* evaluate_model_accuracy, on every table and days_to_test in the bounds
InitBacktest ==
    /\ api_failed = [f \in Fetchers |-> FALSE]
    /\ use_mock_data = [f \in Fetchers |-> FALSE]
    /\ fetch_log = NoFetchLog
    /\ seq_in = [T |-> 0, L |-> 1, H |-> 1]
    /\ seq_out = NoSequences
    /\ model_file = NoModel
    /\ scaler_file = NoScaler
    /\ config_file = NoConfig
    /\ run_count = 0
    /\ predictor = NewPredictorObject
    /\ pred_log = FirstLog
    /\ forecast = NoForecast
    /\ scaling = NoScaling
    /\ backtest \in [n : EvalLengths, tail : [1..TailRows -> Prices],
                     predicted : [1..TailRows -> Prices],
                     days_to_test : DaysToTest, loaded : BOOLEAN,
                     done : {FALSE}, returned : {""}, correct : {0},
                     total : {0}, errors : {0}, windows : {{}},
                     directional_accuracy : {Rat(0, 1)}, mape : {Rat(0, 1)}]
    /\ features = NoFeatures
    /\ sentiment = NoSentiment
    /\ cache = NoCache
    /\ engine = NoEngine
    /\ groups = NoGroups
    /\ adapter = NoAdapter

NextBacktest == EvaluateModelAccuracy

SpecBacktest == InitBacktest /\ [][NextBacktest]_vars

\* the feature table, on every series in the bounds
InitFeatures ==
    /\ api_failed = [f \in Fetchers |-> FALSE]
    /\ use_mock_data = [f \in Fetchers |-> FALSE]
    /\ fetch_log = NoFetchLog
    /\ seq_in = [T |-> 0, L |-> 1, H |-> 1]
    /\ seq_out = NoSequences
    /\ model_file = NoModel
    /\ scaler_file = NoScaler
    /\ config_file = NoConfig
    /\ run_count = 0
    /\ predictor = NewPredictorObject
    /\ pred_log = FirstLog
    /\ forecast = NoForecast
    /\ scaling = NoScaling
    /\ backtest = NoBacktest
    /\ features \in [T : SeriesLengths, level : Levels, flat_from : FlatFrom,
                     flat_len : FlatLen, spread : 0..1, fng : FngModes,
                     done : {FALSE}, rows : {{}}, rsi : {<<>>},
                     bb_width_sq : {<<>>}, has_inf : {FALSE}]
    /\ sentiment = NoSentiment
    /\ cache = NoCache
    /\ engine = NoEngine
    /\ groups = NoGroups
    /\ adapter = NoAdapter

NextFeatures == BuildFeatures

SpecFeatures == InitFeatures /\ [][NextFeatures]_vars

\* the sentiment merge, on every set of observations in the bounds
InitSentiment ==
    /\ api_failed = [f \in Fetchers |-> FALSE]
    /\ use_mock_data = [f \in Fetchers |-> FALSE]
    /\ fetch_log = NoFetchLog
    /\ seq_in = [T |-> 0, L |-> 1, H |-> 1]
    /\ seq_out = NoSequences
    /\ model_file = NoModel
    /\ scaler_file = NoScaler
    /\ config_file = NoConfig
    /\ run_count = 0
    /\ predictor = NewPredictorObject
    /\ pred_log = FirstLog
    /\ forecast = NoForecast
    /\ scaling = NoScaling
    /\ backtest = NoBacktest
    /\ features = NoFeatures
    /\ sentiment \in [obs : [1..MaxDays -> Observations \cup {Missing}],
                      fetched : BOOLEAN, done : {FALSE},
                      has_column : {FALSE}, FNG_Score : {<<>>}]
    /\ cache = NoCache
    /\ engine = NoEngine
    /\ groups = NoGroups
    /\ adapter = NoAdapter

NextSentiment == AddSentimentData

SpecSentiment == InitSentiment /\ [][NextSentiment]_vars

\* the two cached series, no file at the start
InitCache ==
    /\ api_failed = [f \in Fetchers |-> FALSE]
    /\ use_mock_data = [f \in Fetchers |-> FALSE]
    /\ fetch_log = NoFetchLog
    /\ seq_in = [T |-> 0, L |-> 1, H |-> 1]
    /\ seq_out = NoSequences
    /\ model_file = NoModel
    /\ scaler_file = NoScaler
    /\ config_file = NoConfig
    /\ run_count = 0
    /\ predictor = NewPredictorObject
    /\ pred_log = FirstLog
    /\ forecast = NoForecast
    /\ scaling = NoScaling
    /\ backtest = NoBacktest
    /\ features = NoFeatures
    /\ sentiment = NoSentiment
    /\ cache = NoCache
    /\ engine = NoEngine
    /\ groups = NoGroups
    /\ adapter = NoAdapter

NextCache ==
    \/ GetMarketData
    \/ GetSentimentData
    \/ Midnight

SpecCache == InitCache /\ [][NextCache]_vars

\* a feature function and the caller's table
InitEngine ==
    /\ api_failed = [f \in Fetchers |-> FALSE]
    /\ use_mock_data = [f \in Fetchers |-> FALSE]
    /\ fetch_log = NoFetchLog
    /\ seq_in = [T |-> 0, L |-> 1, H |-> 1]
    /\ seq_out = NoSequences
    /\ model_file = NoModel
    /\ scaler_file = NoScaler
    /\ config_file = NoConfig
    /\ run_count = 0
    /\ predictor = NewPredictorObject
    /\ pred_log = FirstLog
    /\ forecast = NoForecast
    /\ scaling = NoScaling
    /\ backtest = NoBacktest
    /\ features = NoFeatures
    /\ sentiment = NoSentiment
    /\ cache = NoCache
    /\ engine \in {[NoEngine EXCEPT !.fn = fn, !.input = t, !.arg = t] :
                     fn \in FeatureFunctions, t \in InputTables}
    /\ groups = NoGroups
    /\ adapter = NoAdapter

NextEngine == CallFeatureFunction

SpecEngine == InitEngine /\ [][NextEngine]_vars

\* the groups of AdvancedFeatureEngineer on a copy of an OHLCV table
InitGroups ==
    /\ api_failed = [f \in Fetchers |-> FALSE]
    /\ use_mock_data = [f \in Fetchers |-> FALSE]
    /\ fetch_log = NoFetchLog
    /\ seq_in = [T |-> 0, L |-> 1, H |-> 1]
    /\ seq_out = NoSequences
    /\ model_file = NoModel
    /\ scaler_file = NoScaler
    /\ config_file = NoConfig
    /\ run_count = 0
    /\ predictor = NewPredictorObject
    /\ pred_log = FirstLog
    /\ forecast = NoForecast
    /\ scaling = NoScaling
    /\ backtest = NoBacktest
    /\ features = NoFeatures
    /\ sentiment = NoSentiment
    /\ cache = NoCache
    /\ engine = NoEngine
    /\ groups = NoGroups
    /\ adapter = NoAdapter

NextGroups ==
    \/ AddGroup
    \/ GenerateAllFeatures

SpecGroups == InitGroups /\ [][NextGroups]_vars

\* the two adapter objects, nothing requested yet
InitAdapter ==
    /\ api_failed = [f \in Fetchers |-> FALSE]
    /\ use_mock_data = [f \in Fetchers |-> FALSE]
    /\ fetch_log = NoFetchLog
    /\ seq_in = [T |-> 0, L |-> 1, H |-> 1]
    /\ seq_out = NoSequences
    /\ model_file = NoModel
    /\ scaler_file = NoScaler
    /\ config_file = NoConfig
    /\ run_count = 0
    /\ predictor = NewPredictorObject
    /\ pred_log = FirstLog
    /\ forecast = NoForecast
    /\ scaling = NoScaling
    /\ backtest = NoBacktest
    /\ features = NoFeatures
    /\ sentiment = NoSentiment
    /\ cache = NoCache
    /\ engine = NoEngine
    /\ groups = NoGroups
    /\ adapter = NoAdapter

NextAdapter ==
    \/ CryptoCompareGetCurrentPrice
    \/ CryptoCompareGetHistoricalData
    \/ CoinGeckoGetCurrentPrice
    \/ CoinGeckoGetHistoricalData

SpecAdapter == InitAdapter /\ [][NextAdapter]_vars

(***************************************************************************)
(* Properties of the ingestion coordinator (SpecFetch).                    *)
(***************************************************************************)
IsCall(e) == e.ev = "call"
IsSleep(e) == e.ev = "sleep"
IsFlagWrite(e) == e.ev = "set_flag"

\* the adapter calls of the last coordinator call, in order
AdapterCalls == SelectSeq(fetch_log.events, IsCall)

\* the last call was get_historical_data / get_current_price on a
\* coordinator that was not degraded when the call began
LiveFetch ==
    /\ fetch_log.op \in {"hist", "price"}
    /\ ~fetch_log.was_failed
    /\ ~fetch_log.was_mock

\* C1: when get_historical_data for a supported symbol made at least one
\* attempt and the adapter failed on every attempt (None, empty or raised),
\* it returns a synthetic series that is non-empty and has exactly
\* days_map(period) rows; it does not raise and does not return None.
C1_FailingProviderGivesSyntheticSeries ==
    ( /\ fetch_log.op = "hist"
      /\ fetch_log.coin \in CoinSymbols
      /\ Len(AdapterCalls) >= 1
      /\ \A i \in 1..Len(AdapterCalls) : AdapterCalls[i].out # "data" )
    => /\ fetch_log.ret.kind = "series"
       /\ fetch_log.ret.source = "synthetic"
       /\ fetch_log.ret.rows = days_map(fetch_log.period)
       /\ fetch_log.ret.rows > 0

\* a one-day history asked of a provider that answered None, then an empty
\* frame
C1_Witness ==
    /\ fetch_log.op = "hist"
    /\ fetch_log.coin = "XRP"
    /\ fetch_log.period = "1d"
    /\ Len(AdapterCalls) = 2
    /\ AdapterCalls[1].out = "none"
    /\ AdapterCalls[2].out = "empty"
    /\ fetch_log.ret.source = "synthetic"

\* C2: once api_failed is set on a DataFetcher it stays set, and every call
\* of get_historical_data, get_current_price or prepare_data_for_model that
\* begins with the flag set returns synthetic data without an adapter call.
C2_DegradedModeIsSticky ==
    /\ [][\A f \in Fetchers : api_failed[f] => api_failed'[f]]_vars
    /\ []( (fetch_log.op # "none" /\ fetch_log.was_failed)
           => /\ fetch_log.events = <<>>
              /\ fetch_log.ret.source = "synthetic"
              /\ api_failed[fetch_log.fetcher] )

\* a quote asked of a coordinator whose flag an earlier call had set
C2_Witness ==
    /\ fetch_log.op = "price"
    /\ fetch_log.was_failed
    /\ ~fetch_log.was_mock
    /\ fetch_log.coin \in CoinSymbols
    /\ api_failed[fetch_log.fetcher]

\* C7: a request for a symbol the adapter does not support is surfaced at
\* once: the adapter is called once, nothing sleeps, and no synthetic
\* result is returned.
C7_UnsupportedSymbolSurfacedAtOnce ==
    (LiveFetch /\ fetch_log.coin \notin CoinSymbols /\ fetch_log.max_retries >= 1)
    => /\ Len(AdapterCalls) = 1
       /\ SelectSeq(fetch_log.events, IsSleep) = <<>>
       /\ fetch_log.ret.source # "synthetic"

\* C9: a call with max_retries = N >= 1 invokes the adapter at most N times
\* and ends in one of three ways: it returns the first successful adapter
\* result, and that call is the last one; or N attempts failed, the flag is
\* set after the last of them and synthetic data is returned; or the
\* coordinator was degraded at entry and the adapter is not invoked at all.
C9_AtMostNAttemptsThenFallback ==
    LET ev == fetch_log.events
        calls == AdapterCalls
        n == fetch_log.max_retries
    IN  (fetch_log.op \in {"hist", "price"} /\ n >= 1)
        => /\ Len(calls) <= n
           /\ \/ /\ LiveFetch
                 /\ Len(calls) >= 1
                 /\ calls[Len(calls)].out = "data"
                 /\ \A i \in 1..(Len(calls) - 1) : calls[i].out # "data"
                 /\ ev[Len(ev) - 1] = calls[Len(calls)]
                 /\ SelectSeq(ev, IsFlagWrite) = <<>>
                 /\ fetch_log.ret.source = "real"
                 /\ ~api_failed[fetch_log.fetcher]
              \/ /\ LiveFetch
                 /\ Len(calls) = n
                 /\ \A i \in 1..n : calls[i].out # "data"
                 /\ ev[Len(ev)].ev = "set_flag"
                 /\ ev[Len(ev) - 1] = calls[n]
                 /\ Len(SelectSeq(ev, IsFlagWrite)) = 1
                 /\ fetch_log.ret.source = "synthetic"
                 /\ api_failed[fetch_log.fetcher]
              \/ /\ ~LiveFetch
                 /\ ev = <<>>
                 /\ fetch_log.ret.source = "synthetic"

\* three attempts of the history, all failed
C9_Witness ==
    /\ fetch_log.op = "hist"
    /\ fetch_log.max_retries = 3
    /\ Len(AdapterCalls) = 3
    /\ fetch_log.ret.source = "synthetic"
    /\ api_failed[fetch_log.fetcher]

\* the seconds slept from event i to event j of the last call
RECURSIVE Slept(_, _)
Slept(i, j) ==
    IF i > j THEN 0 ELSE fetch_log.events[i].t + Slept(i + 1, j)

\* the place in the event list of the k-th adapter call
CallAt(k) ==
    CHOOSE i \in 1..Len(fetch_log.events) :
        /\ IsCall(fetch_log.events[i])
        /\ Len(SelectSeq(SubSeq(fetch_log.events, 1, i), IsCall)) = k

\* the wait between attempt k and attempt k + 1
WaitBeforeRetry(k) == Slept(CallAt(k), CallAt(k + 1))

\* C10: between consecutive attempts of one fetch the wait doubles: the
\* wait before retry k+1 is twice the wait before retry k.
C10_BackoffDoubles ==
    fetch_log.op \in {"hist", "price"}
    => \A k \in 1..(Len(AdapterCalls) - 2) :
           WaitBeforeRetry(k + 1) = 2 * WaitBeforeRetry(k)

(***************************************************************************)
(* Properties of the windowing (SpecWindow).                               *)
(***************************************************************************)
\* C5: for a table of T rows, lookback L and horizon H, prepare_sequences
\* produces exactly max(0, T - L - H + 1) pairs.
C5_WindowCount ==
    seq_out.done
    => Len(seq_out.pairs) =
           (IF seq_in.T - seq_in.L - seq_in.H + 1 > 0
            THEN seq_in.T - seq_in.L - seq_in.H + 1
            ELSE 0)

(***************************************************************************)
(* Properties of the predictor and its files (SpecArtifact).               *)
(***************************************************************************)
\* C3: a load never pairs a regressor with a scaler or a manifest of a
\* different training run.
C3_LoadSeesOneRun ==
    (pred_log.op = "load" /\ pred_log.outcome = "ok")
    => /\ pred_log.seen[1] = pred_log.seen[2]
       /\ pred_log.seen[1] = pred_log.seen[3]

\* the manifest read by predict names a column the table does not have
ManifestColumnMissing ==
    /\ pred_log.op = "predict"
    /\ pred_log.cfg.run # 0
    /\ Len(Available(pred_log.cfg.feature_cols, pred_log.window_cols))
         < Len(pred_log.cfg.feature_cols)

\* C4: when the manifest names a column that the table passed to predict
\* lacks, inference fails on that account: the remaining columns are not
\* handed on to the scaler and the regressor.
C4_MissingManifestColumnRejected ==
    ManifestColumnMissing
    => /\ pred_log.outcome = "error"
       /\ ~pred_log.scaler_invoked
       /\ ~pred_log.predict_invoked

\* C6: a newly constructed predictor that loads an artifact saved with
\* lookback L, horizon H and manifest M builds its window from L rows over
\* the columns of M in M's order, and emits H forecasts (stated for a table
\* that has at least L rows and every column of M).
C6_InferenceUsesPersistedConfig ==
    ( /\ pred_log.op = "predict"
      /\ pred_log.fresh
      /\ pred_log.scaler_invoked
      /\ pred_log.rows >= pred_log.cfg.lookback
      /\ Len(pred_log.window_cols) = Len(pred_log.cfg.feature_cols) )
    => /\ pred_log.window_rows = pred_log.cfg.lookback
       /\ pred_log.window_cols = pred_log.cfg.feature_cols
       /\ (pred_log.outcome = "ok"
             => pred_log.forecasts = pred_log.cfg.prediction_days)

\* the table has fewer rows than the operation needs: fewer than L for an
\* inference, fewer than L + H (no complete window) for a training
TooFewRows ==
    \/ /\ pred_log.op \in {"predict", "api_predict", "api_all"}
       /\ pred_log.rows < pred_log.lookback
    \/ /\ pred_log.op \in {"train", "api_train"}
       /\ pred_log.rows < pred_log.lookback + pred_log.prediction_days

\* C8: with too few rows the operation fails with an insufficient-data
\* error before the regressor's fit or predict is invoked, on direct calls
\* and on every API path.
C8_TooFewRowsRejectedBeforeRegressor ==
    TooFewRows
    => /\ pred_log.outcome = "error"
       /\ pred_log.error \in {"Insufficient data for prediction",
                              "Insufficient data for training"}
       /\ ~pred_log.fit_invoked
       /\ ~pred_log.predict_invoked

(***************************************************************************)
(* Further properties of the ingestion coordinator (SpecFetch).            *)
(***************************************************************************)
SomeFetcherDegraded == \E g \in Fetchers : api_failed[g]

\* C11: the degraded-mode flag is process-wide: once any coordinator of the
\* process has set it, no later fetch of the process, through whichever
\* DataFetcher (one that has never been used included), calls the adapter.
C11_FlagIsProcessWide ==
    [][SomeFetcherDegraded => SelectSeq(fetch_log'.events, IsCall) = <<>>]_vars

\* C12: for every max_retries, 0 included, a call of get_historical_data or
\* get_current_price returns a non-empty result; it never returns None or
\* an empty series.
C12_NeverNoneNorEmpty ==
    fetch_log.op \in {"hist", "price"}
    => /\ fetch_log.ret.kind # "None"
       /\ fetch_log.ret.rows > 0

(***************************************************************************)
(* Further properties of the artifact files (SpecArtifact).                *)
(***************************************************************************)
AllFilesPresent ==
    /\ model_file.run # 0
    /\ scaler_file.run # 0
    /\ config_file.run # 0

\* C13: load_model either loads a complete artifact (model, scaler and
\* config files all present) or, when any of the three files is missing,
\* returns False; it does not raise.
C13_LoadCompleteOrNotFound ==
    pred_log.op = "load"
    => IF AllFilesPresent THEN pred_log.outcome = "ok"
                          ELSE pred_log.outcome = "false"

(***************************************************************************)
(* Properties of the forecast list (SpecForecast).                         *)
(***************************************************************************)
\* C14: predict returns exactly H = prediction_days forecasts in order; the
\* i-th (1 <= i <= H) is dated last known date + i calendar days, weekends
\* included, and its change_percent is (predicted price - last known close)
\* / last known close * 100.
C14_ForecastDatesAndChange ==
    (forecast.done /\ forecast.error = "")
    => /\ Len(forecast.predictions) = forecast.H
       /\ \A i \in 1..Len(forecast.predictions) :
            LET f == forecast.predictions[i]
            IN  /\ f.date = forecast.last_date + i
                /\ RatEq(f.change_percent,
                         Rat((f.price - forecast.current_price) * 100,
                             forecast.current_price))

\* three forecasts from a Friday (weekday 4) run over the weekend, and a
\* forecast below the last close has a negative change
C14_Witness ==
    /\ forecast.done
    /\ forecast.H = 3
    /\ forecast.last_date = 4
    /\ forecast.current_price = 2
    /\ Len(forecast.predictions) = 3
    /\ forecast.predictions[2].date % 7 = 6
    /\ forecast.predictions[2].price = 1
    /\ forecast.predictions[2].change_percent.n < 0

(***************************************************************************)
(* Properties of the scaler (SpecScaling).                                 *)
(***************************************************************************)
CloseMin == SeqMin(Column(scaling.table, scaling.close_idx))
CloseMax == SeqMax(Column(scaling.table, scaling.close_idx))

WithinTrainingBounds ==
    \A j \in 1..NFeatures :
        /\ SeqMin(Column(scaling.table, j)) <= scaling.x[j]
        /\ scaling.x[j] <= SeqMax(Column(scaling.table, j))

\* C15: with the scaler fitted on the training table, a feature vector
\* within the training bounds comes back unchanged from transform followed
\* by inverse_transform, and the zero-filled-row inverse maps a normalized
\* close v to close_min + v * (close_max - close_min), whatever the other
\* column's bounds are.
C15_ScalerRoundTripAndReconstruction ==
    scaling.done
    => /\ WithinTrainingBounds
          => \A j \in 1..NFeatures :
                 RatEq(scaling.restored[j], Rat(scaling.x[j], 1))
       /\ RatEq(scaling.prediction,
                RatAdd(Rat(CloseMin, 1),
                       RatMul(scaling.v, Rat(CloseMax - CloseMin, 1))))

(***************************************************************************)
(* Properties of the backtest (SpecBacktest).                              *)
(***************************************************************************)
\* the indices of the trailing window that have a full lookback before them
EvaluableDays ==
    {i \in (backtest.n - backtest.days_to_test)..(backtest.n - 1) :
        i >= DefaultLookback}

Sign(x) == IF x > 0 THEN 1 ELSE IF x < 0 THEN -1 ELSE 0

SameSign(i) ==
    Sign(PredictedAt(backtest, i) - CloseAt(backtest, i - 1))
        = Sign(CloseAt(backtest, i) - CloseAt(backtest, i - 1))

C17_CorrectCountsEqualSigns ==
    backtest.returned = "result"
    => /\ backtest.correct = Cardinality({i \in EvaluableDays : SameSign(i)})
       /\ ( /\ EvaluableDays # {}
            /\ \A i \in EvaluableDays :
                   PredictedAt(backtest, i) = CloseAt(backtest, i) )
          => /\ RatEq(backtest.directional_accuracy, Rat(100, 1))
             /\ RatEq(backtest.mape, Rat(0, 1))

(***************************************************************************)
(* Properties of the feature table (SpecFeatures).                         *)
(***************************************************************************)
\* C18: a valid OHLCV series of T rows (here of at least 49, and with the
\* sentiment merge leaving no gap) gives a feature table of exactly the
\* T - 49 rows after the warm-up of the 50-row windows, none of which holds
\* a NaN or an Inf.
C18_OnlyWarmUpRowsDropped ==
    (features.done /\ features.T >= 49 /\ features.fng # "nomatch")
    => /\ features.rows = 49..(features.T - 1)
       /\ ~features.has_inf

\* the whole series closes at one level
ConstantClose ==
    /\ features.flat_from = 0
    /\ features.flat_len >= features.T

\* C19: 120 daily rows closing constantly at 100.0 give a non-empty table
\* after warm-up with RSI 50 and Bollinger width 0 on every row; no zero
\* denominator puts a NaN or Inf into the table or removes rows.
C19_FlatSeriesGivesNeutralIndicators ==
    ( /\ features.done
      /\ features.T = 120
      /\ features.level = 100
      /\ ConstantClose
      /\ features.fng # "nomatch" )
    => /\ features.rows # {}
       /\ features.rows = 49..(features.T - 1)
       /\ ~features.has_inf
       /\ \A i \in features.rows :
            /\ RatEq(features.rsi[i], Rat(50, 1))
            /\ features.bb_width_sq[i].n = 0

(***************************************************************************)
(* Properties of the sentiment merge (SpecSentiment).                      *)
(***************************************************************************)
NeutralDefault == [score |-> 50, category |-> "Average"]

\* the most recent observation dated at or before d, the neutral default
\* when there is none yet
LatestObservation(d) ==
    LET seen == {e \in 1..d : sentiment.obs[e] # Missing}
    IN  IF seen = {} THEN NeutralDefault
        ELSE sentiment.obs[CHOOSE e \in seen : \A x \in seen : x <= e]

\* C20: in the feature table the sentiment of a row is the most recent
\* observation dated at or before the row (forward-fill); rows before the
\* first observation carry the neutral default (score 50); a later
\* observation is never copied back to an earlier date.  (Stated for a
\* series on which at least one observation falls.)
C20_SentimentForwardFilledOnly ==
    ( /\ sentiment.done
      /\ sentiment.fetched
      /\ \E d \in 1..MaxDays : sentiment.obs[d] # Missing )
    => /\ sentiment.has_column
       /\ \A d \in 1..MaxDays :
            sentiment.FNG_Score[d] = LatestObservation(d).score

(***************************************************************************)
(* Properties of the cached external series (SpecCache).                   *)
(***************************************************************************)
\* days between the newest cached date and the day of the last getter call
CacheAge == cache.log.on - cache.log.before.last_date

\* C21: for the market indices and for the sentiment index alike, a getter
\* that finds a cache file whose newest date is at most 2 calendar days old
\* returns the cached rows without refetching, and one that finds an older
\* file refetches.
C21_RefetchOnlyWhenOlderThanTwoDays ==
    (cache.log.series \in SeriesNames /\ cache.log.before.exists)
    => IF CacheAge <= 2
       THEN ~cache.log.refetched /\ cache.log.ret = cache.log.before
       ELSE cache.log.refetched

\* the provider gave nothing to the refetch of the last getter call
RefetchFailed == cache.log.refetched /\ ~cache.log.answer.ok

\* the cache file of the series the last getter call was about
CacheFile ==
    IF cache.log.series = "market" THEN cache.market ELSE cache.sentiment

\* C30: when a cache file exists and the refetch triggered by its age fails,
\* the getter returns the rows that were cached (stale rather than none),
\* the file is as it was, and the feature table gets its sentiment column.
C30_StaleRowsWhenRefetchFails ==
    (cache.log.series \in SeriesNames /\ cache.log.before.exists /\ RefetchFailed)
    => /\ cache.log.ret = cache.log.before
       /\ CacheFile = cache.log.before
       /\ cache.log.series = "sentiment" => gets_sentiment_column(cache.log.ret)

(***************************************************************************)
(* Further properties of the predictor and its files (SpecArtifact).       *)
(***************************************************************************)
\* C22: PricePredictor.predict and evaluate_model_accuracy write none of the
\* model, scaler and config files and never fit a scaler: the regressor and
\* scaler files are as before, no fit is invoked, a predictor that had its
\* model keeps its scaler, and one that had none ends with its own or the
\* one read from the scaler file.
C22_InferenceIsReadOnly ==
    [][pred_log'.op \in {"predict", "evaluate"}
       => /\ model_file' = model_file
          /\ scaler_file' = scaler_file
          /\ config_file' = config_file
          /\ run_count' = run_count
          /\ ~pred_log'.fit_invoked
          /\ predictor.model.run # 0 => predictor'.scaler = predictor.scaler
          /\ predictor'.scaler \in {predictor.scaler, scaler_file}]_vars

\* an inference that loaded the files, used the scaler and gave forecasts
C22_Witness ==
    /\ pred_log.op = "predict"
    /\ pred_log.steps = <<"load", "predict">>
    /\ pred_log.scaler_invoked
    /\ pred_log.forecasts > 0
    /\ scaler_file.run # 0

(***************************************************************************)
(* Properties of the feature functions (SpecEngine).                       *)
(***************************************************************************)
\* C23: a feature function called twice on the same table (with the same
\* sentiment rows available both times) returns the same table both times,
\* and after each call the caller's table has the columns and rows it had
\* before the first call.
C23_FeatureEngineIsPure ==
    (engine.calls = MaxCalls /\ engine.fetched[1] = engine.fetched[2])
    => /\ engine.outputs[1] = engine.outputs[2]
       /\ \A k \in 1..MaxCalls : engine.args[k] = engine.input

(***************************************************************************)
(* Further properties of the windowing (SpecWindow).                       *)
(***************************************************************************)
\* the index e at which the window of the k-th pair ends
WindowEnd(k) == seq_out.pairs[k].window[seq_in.L]

\* C24: every pair of prepare_sequences is L contiguous rows ending at an
\* index e together with the rows e+1 .. e+H as target; from one pair to the
\* next e grows by exactly one; no window starts before the first row and
\* no target runs past the last row.
C24_WindowsContiguousTargetsFollow ==
    seq_out.done
    => \A k \in 1..Len(seq_out.pairs) :
         LET pair == seq_out.pairs[k]
             e == WindowEnd(k)
         IN  /\ Len(pair.window) = seq_in.L
             /\ Len(pair.target) = seq_in.H
             /\ \A j \in 1..seq_in.L : pair.window[j] = e - seq_in.L + j
             /\ \A j \in 1..seq_in.H : pair.target[j] = e + j
             /\ pair.window[1] >= 0
             /\ pair.target[seq_in.H] <= seq_in.T - 1
             /\ k > 1 => e = WindowEnd(k - 1) + 1

\* several pairs, windows and targets of more than one row
C24_Witness ==
    /\ seq_out.done
    /\ Len(seq_out.pairs) >= 2
    /\ seq_in.L >= 2
    /\ seq_in.H >= 2

(***************************************************************************)
(* Properties of the coordinator's feature table (SpecFetch).              *)
(***************************************************************************)
\* C25: whatever the coordinator's state at the call (flag unset, flag set
\* during the call, flag set before it), the table prepare_data_for_model
\* returns has the columns the coordinator's own pipeline gives on provider
\* rows, with and without sentiment rows.  (Stated for a coordinator that
\* was not constructed with use_mock_data.)
C25_SameColumnsFromEitherSource ==
    (fetch_log.op = "prepare" /\ ~fetch_log.was_mock)
    => \A fetched \in BOOLEAN :
         prepared_columns(fetch_log.ret.pipeline, fetched)
             = prepared_columns("coordinator", fetched)

(***************************************************************************)
(* Properties of the groups of AdvancedFeatureEngineer (SpecGroups).       *)
(***************************************************************************)
\* C26: in whatever order the groups are applied, a group other than the
\* lag group finds every column it reads (it reads only the OHLCV columns
\* and its own), and once all groups are applied the table is the one
\* generate_all_features gives.
C26_GroupsCommuteExceptLag ==
    /\ groups.failed \in {"", "lag_features"}
    /\ (groups.applied = GroupNames /\ groups.failed = "")
       => groups.cols = generate_all_features(NoGroups).cols

(***************************************************************************)
(* Properties of the provider adapters (SpecAdapter).                      *)
(***************************************************************************)
\* C27: every adapter operation raises for an unsupported symbol, returns
\* None when the request failed or the body is malformed or lacks the
\* requested symbol or rows, and otherwise returns a record or series; it
\* never returns a record of default values for a body without the symbol.
C27_AdapterNormalizesOrFails ==
    \A a \in Adapters :
        LET last == adapter[a]
        IN  last.op # "none"
            => /\ last.coin \notin CoinSymbols => last.result = Raised
               /\ (last.coin \in CoinSymbols
                   /\ last.payload \in {"error", "no_symbol"})
                  => last.result = ReturnedNone
               /\ (last.coin \in CoinSymbols
                   /\ last.payload \in {"no_fields", "full"})
                  => last.result.kind \in {"record", "series"}

(***************************************************************************)
(* Further properties of the ingestion coordinator (SpecFetch).            *)
(***************************************************************************)
\* C28: a fetch for a symbol the adapter rejects as unsupported leaves the
\* degraded-mode flag of its DataFetcher as it was before the call.
C28_UnsupportedSymbolLeavesFlag ==
    (fetch_log.op \in {"hist", "price"} /\ fetch_log.coin \notin CoinSymbols)
    => api_failed[fetch_log.fetcher] = fetch_log.was_failed

(***************************************************************************)
(* Further properties of the backtest (SpecBacktest).                      *)
(***************************************************************************)
\* what C29 says of the counters, errors and windows acc at some point of
\* the loop, and of the accuracy figure da computed from them
LoopInvariant(acc, da) ==
    /\ 0 <= acc.correct
    /\ acc.correct <= acc.total
    /\ acc.total <= (IF backtest.days_to_test > 0 THEN backtest.days_to_test ELSE 0)
    /\ acc.total = acc.errors
    /\ \A w \in acc.windows :
         /\ w.i >= DefaultLookback
         /\ w.from = w.i - DefaultLookback
         /\ w.len = DefaultLookback
    /\ da.d > 0
    /\ 0 <= da.n
    /\ da.n <= 100 * da.d

\* C29: after every iteration of evaluate_model_accuracy's loop and in its
\* result, 0 <= correct <= total <= max(0, days_to_test), total is the
\* number of recorded errors, every evaluated index i is at least the
\* lookback L with the window being exactly the rows i-L .. i-1, and the
\* directional accuracy lies between 0 and 100.
C29_BacktestCountersBounded ==
    backtest.returned = "result"
    => /\ LoopInvariant(backtest, backtest.directional_accuracy)
       /\ \A h \in (backtest.n - backtest.days_to_test)..backtest.n :
            LET acc == backtest_loop(backtest, DefaultLookback,
                                     backtest.n - backtest.days_to_test, h)
            IN  LoopInvariant(acc, directional_accuracy(acc.correct, acc.total))

\* a backtest over more days than have a full lookback, some of them right
C29_Witness ==
    /\ backtest.returned = "result"
    /\ backtest.days_to_test = 50
    /\ backtest.total = backtest.n - DefaultLookback
    /\ backtest.correct > 0
    /\ backtest.correct < backtest.total

====
